---- MODULE Spec2Model ----
(***************************************************************************)
(* Model of the streaming chat core of the ai-client package:              *)
(*   - createDefaultSession (session-adapter.ts): the async queue between  *)
(*     session.send() and session.subscribe();                             *)
(*   - ChatClient (chat-client.ts): streamResponse, the subscription loop, *)
(*     stop, reload, append and the post-stream action queue;              *)
(*   - StreamProcessor: the part of processChunk / finalizeStream that the *)
(*     client's status, error and message list depend on.                  *)
(* Every await of the source is a boundary between two actions; the code   *)
(* between two awaits is one atomic action.                                *)
(***************************************************************************)
EXTENDS Integers, Sequences, FiniteSets, TLC

\* ------------------------------------------------------------------ bounds
MaxSubs == 2       \* subscribe() calls
MaxGen == 3        \* session.send() calls / streamResponse invocations, at most
MaxChunks == 2     \* chunks one connection stream yields, at most
MaxAppends == 2    \* append() calls, at most
ClientGens == 2    \* streamResponse invocations when the user is free to stop and reload
ClientChunks == 1  \* chunks per connection stream in the client runs
ClientStops == 1   \* stop() calls
DrainReloads == 1  \* reload() calls while post-stream actions are queued
MaxEvents == 5     \* events and calls given to a processor used on its own
MaxToolEvents == 6 \* events and calls of one well-formed stream with tool calls
RoundChunks == 3   \* chunks of a connection stream in which the server runs a tool

Subs == 1..MaxSubs
Gens == 1..MaxGen

\* ------------------------------------------------------------------ values
\* A StreamChunk. src/n identify the connect() call and the position in its
\* stream; delta is the text of a TEXT_MESSAGE_CONTENT; message the text of
\* a RUN_ERROR.
Chunk(type, src, n, delta, message) ==
  [type |-> type, src |-> src, n |-> n, delta |-> delta, message |-> message,
   messageId |-> 0,           \* 0: undefined
   role |-> "",
   hasContent |-> FALSE,      \* content !== undefined
   content |-> <<>>,
   toolCallId |-> "",
   result |-> "",             \* "": no result
   name |-> "",
   approvalId |-> ""]

NoChunk == Chunk("null", 0, 0, "", "")

\* Values a connection can throw: Error objects (name, message) and a value
\* that is not an Error.
Err(name, message) == [isError |-> TRUE, name |-> name, message |-> message]
NonError == [isError |-> FALSE, name |-> "", message |-> ""]
NoErr == [isError |-> FALSE, name |-> "none", message |-> ""]
PlainErrors == {Err("Error", "boom"), NonError}
AbortErr == Err("AbortError", "aborted")

VARIABLES
  \* createDefaultSession closure state
  bufs,              \* the chunk arrays: 0 is the initial array, k is myBuffer of subscription k
  activeBuffer,      \* which array activeBuffer refers to
  activeWaiters,     \* which waiter array activeWaiters refers to (0: the initial, empty one)
  subs,              \* the generators returned by subscribe(), with their AbortSignal
  nsubs,             \* subscribe() calls so far
  sends,             \* the send() calls: position in connection.connect()'s stream
  abortedCtl,        \* the AbortControllers handed to send() that were aborted
  \* ChatClient fields
  isLoading,
  status,
  error,
  abortController,              \* 0: null; g: the controller streamResponse g created
  subscriptionAbortController,  \* 0: null; k: the controller of subscription k
  processingResolve,            \* 0: null; g: the resolver of the promise streamResponse g awaits
  procDone,                     \* the processing promises that are resolved
  streamGeneration,
  postStreamActions,
  continuationPending,
  pendingToolExecutions,  \* per toolCallId, the execution onToolCall started:
                          \* pc "executing" | "done", the stream src it was
                          \* started for, tracked: it is still in the Map,
                          \* errorText: what execute threw ("": it returned)
  inv,               \* the streamResponse invocations: where each is suspended
  processor,         \* the StreamProcessor
  calls,             \* append(), stop() and reload() calls so far
  legacy,            \* the StreamProcessor of stream/types.ts and its process() call
  \* history
  pushed,            \* every chunk passed to push(), in order
  received,          \* per subscription: the chunks its consumer got
  dropped,           \* chunks handed to a waiter whose promise was already resolved
  adopted,           \* per subscription: pushed-count and buffer at its subscribe()
  hist,              \* what the client did for which stream
  cap                \* the bounds of the run: send() calls, chunks per stream, user calls

sessVars == <<bufs, activeBuffer, activeWaiters, subs, nsubs>>
histVars == <<pushed, received, dropped, adopted, hist>>
clientVars == <<isLoading, status, error, abortController,
                subscriptionAbortController, processingResolve, procDone,
                streamGeneration, postStreamActions, continuationPending,
                pendingToolExecutions, inv, processor, calls>>
vars == <<bufs, activeBuffer, activeWaiters, subs, nsubs, sends, abortedCtl,
          isLoading, status, error, abortController,
          subscriptionAbortController, processingResolve, procDone,
          streamGeneration, postStreamActions, continuationPending,
          pendingToolExecutions, inv, processor, calls, legacy,
          pushed, received, dropped, adopted, hist, cap>>

\* ------------------------------------------------- the state as one value
\* The operations below are functions from state to state, so that a handler
\* that calls several of them is one action.
World ==
  [bufs |-> bufs, activeBuffer |-> activeBuffer, activeWaiters |-> activeWaiters,
   subs |-> subs, nsubs |-> nsubs, sends |-> sends, abortedCtl |-> abortedCtl,
   isLoading |-> isLoading, status |-> status, error |-> error,
   abortController |-> abortController,
   subscriptionAbortController |-> subscriptionAbortController,
   processingResolve |-> processingResolve, procDone |-> procDone,
   streamGeneration |-> streamGeneration,
   postStreamActions |-> postStreamActions,
   continuationPending |-> continuationPending,
   pendingToolExecutions |-> pendingToolExecutions, inv |-> inv,
   processor |-> processor, calls |-> calls, legacy |-> legacy,
   pushed |-> pushed, received |-> received, dropped |-> dropped,
   adopted |-> adopted, hist |-> hist, cap |-> cap]

SetWorld(W) ==
  /\ bufs' = W.bufs
  /\ activeBuffer' = W.activeBuffer
  /\ activeWaiters' = W.activeWaiters
  /\ subs' = W.subs
  /\ nsubs' = W.nsubs
  /\ sends' = W.sends
  /\ abortedCtl' = W.abortedCtl
  /\ isLoading' = W.isLoading
  /\ status' = W.status
  /\ error' = W.error
  /\ abortController' = W.abortController
  /\ subscriptionAbortController' = W.subscriptionAbortController
  /\ processingResolve' = W.processingResolve
  /\ procDone' = W.procDone
  /\ streamGeneration' = W.streamGeneration
  /\ postStreamActions' = W.postStreamActions
  /\ continuationPending' = W.continuationPending
  /\ pendingToolExecutions' = W.pendingToolExecutions
  /\ inv' = W.inv
  /\ processor' = W.processor
  /\ calls' = W.calls
  /\ legacy' = W.legacy
  /\ pushed' = W.pushed
  /\ received' = W.received
  /\ dropped' = W.dropped
  /\ adopted' = W.adopted
  /\ hist' = W.hist
  /\ cap' = W.cap

\* ------------------------------------------------- createDefaultSession
\* A generator of subscribe(): pc is where it is suspended.
\*   "none"     not created
\*   "idle"     created or suspended at its yield; the consumer has not called next()
\*   "waiting"  awaiting the promise whose resolver sits in myWaiters
\*   "resolved" the promise is resolved with val (a chunk, or NoChunk for null)
\*   "yielded"  it yielded val; the consumer has not resumed yet
\*   "done"     it returned
\* waiter: myWaiters still holds the resolver this generator pushed.
NoSub == [pc |-> "none", aborted |-> FALSE, waiter |-> FALSE, val |-> NoChunk]

\* push(chunk)
pushFront(S, chunk) ==
  [S EXCEPT !.bufs[S.activeBuffer] = <<chunk>> \o @,
            !.pushed = Append(@, chunk)]

push(S, chunk) ==
  LET w == S.activeWaiters
      P == [S EXCEPT !.pushed = Append(@, chunk)]
  IN IF w # 0 /\ S.subs[w].waiter
       THEN \* activeWaiters.shift(); waiter(chunk)
            IF S.subs[w].pc = "waiting"
              THEN [P EXCEPT !.subs[w].waiter = FALSE,
                             !.subs[w].pc = "resolved",
                             !.subs[w].val = chunk]
              ELSE \* the promise was resolved with null by onAbort: resolve(c) is a no-op
                   [P EXCEPT !.subs[w].waiter = FALSE,
                             !.dropped = Append(@, chunk)]
       ELSE [P EXCEPT !.bufs[S.activeBuffer] = Append(@, chunk)]

\* subscribe(signal): the synchronous part
subscribeFresh(S) ==
  LET k == S.nsubs + 1
  IN [S EXCEPT !.nsubs = k,
               !.bufs[k] = <<>>,
               !.activeBuffer = k,
               !.activeWaiters = k,
               !.subs[k] = [NoSub EXCEPT !.pc = "idle"],
               !.adopted[k] = [at |-> Len(S.pushed), buf |-> S.bufs[S.activeBuffer]]]

subscribe(S) ==
  LET k == S.nsubs + 1
      old == S.activeBuffer
  IN [S EXCEPT !.nsubs = k,
               !.bufs[k] = S.bufs[old],      \* myBuffer = activeBuffer.splice(0)
               !.bufs[old] = <<>>,
               !.activeBuffer = k,
               !.activeWaiters = k,          \* myWaiters = []
               !.subs[k] = [NoSub EXCEPT !.pc = "idle"],
               !.adopted[k] = [at |-> Len(S.pushed), buf |-> S.bufs[old]]]

\* The generator body from the loop test to its next suspension: run by next()
\* on a generator suspended at its start or at its yield.
genNext(S, k) ==
  IF S.subs[k].aborted
    THEN [S EXCEPT !.subs[k].pc = "done"]
    ELSE IF Len(S.bufs[k]) > 0
           THEN [S EXCEPT !.subs[k].pc = "yielded",
                          !.subs[k].val = Head(S.bufs[k]),
                          !.bufs[k] = Tail(@)]
           ELSE [S EXCEPT !.subs[k].pc = "waiting",
                          !.subs[k].waiter = TRUE]

\* The generator resuming after its promise was resolved.
genResume(S, k) ==
  IF S.subs[k].val # NoChunk
    THEN [S EXCEPT !.subs[k].pc = "yielded"]
    ELSE \* chunk === null: nothing is yielded; back to the loop test
         [genNext(S, k) EXCEPT !.subs[k].val = NoChunk]

\* signal.abort() of the signal given to subscribe(): onAbort resolves a
\* pending promise with null; the resolver stays in myWaiters.
abortSub(S, k) ==
  IF k = 0 \/ S.subs[k].aborted
    THEN S
    ELSE IF S.subs[k].pc = "waiting"
           THEN [S EXCEPT !.subs[k].aborted = TRUE,
                          !.subs[k].pc = "resolved",
                          !.subs[k].val = NoChunk]
           ELSE [S EXCEPT !.subs[k].aborted = TRUE]

\* ---------------------------------------------------------- send()
\* A send() call: pc "none" | "running" | "resolved" | "rejected"; n chunks
\* yielded by its connection so far; term: a terminal event was yielded;
\* signal: the AbortController whose signal it was given (0: none); thrown:
\* what its connection threw; err: what it rejected with.
NoSend == [pc |-> "none", n |-> 0, term |-> FALSE, signal |-> 0,
           thrown |-> NoErr, err |-> NoErr]

SigAborted(s) == sends[s].signal # 0 /\ sends[s].signal \in abortedCtl

Deltas == {"x", " "}

ConnChunks(s) ==
  {Chunk("TEXT_MESSAGE_CONTENT", s, sends[s].n + 1, d, "") : d \in Deltas}
    \cup {Chunk("RUN_FINISHED", s, sends[s].n + 1, "", ""),
          Chunk("RUN_ERROR", s, sends[s].n + 1, "", "in-band")}

IsTerminal(c) == c.type \in {"RUN_FINISHED", "RUN_ERROR"}

\* A connection whose streams are a bare RUN_FINISHED.
FinishChunks(s) == {Chunk("RUN_FINISHED", s, sends[s].n + 1, "", "")}

\* The chunks a connection yields when only the queue is looked at.
PlainChunks(s) ==
  {Chunk("TEXT_MESSAGE_CONTENT", s, sends[s].n + 1, "x", "")}

\* for await (const chunk of stream) push(chunk)
ConnYield(s, C) ==
  /\ sends[s].pc = "running"
  /\ ~sends[s].term
  /\ sends[s].n < cap.chunks
  /\ \E c \in C :
       SetWorld([push(World, c) EXCEPT !.sends[s].n = @ + 1,
                                       !.sends[s].term = IsTerminal(c)])

\* The connection's iterable ends: send() resolves.
ConnEnd(s) ==
  /\ sends[s].pc = "running"
  /\ SetWorld([World EXCEPT !.sends[s].pc = "resolved"])

\* What the catch block of send() pushes for a thrown value.
sendErrorChunkNoMessage(s, e) ==
  Chunk("RUN_ERROR", s, 0, "", "Unknown error in send()")

sendErrorChunk(s, e) ==
  Chunk("RUN_ERROR", s, 0, "",
        IF e.isError THEN e.message ELSE "Unknown error in send()")

\* What send() rejects with when connect() threw e.
sendRethrows(e) == e

\* connection.connect() or its iteration throws e: the catch block pushes a
\* RUN_ERROR and re-throws. An AbortError is thrown only for an aborted signal.
ConnThrow(s, E) ==
  /\ sends[s].pc = "running"
  /\ ~sends[s].term
  /\ \E e \in IF SigAborted(s) THEN {AbortErr} ELSE E :
       SetWorld([push(World, sendErrorChunk(s, e))
                   EXCEPT !.sends[s].pc = "rejected",
                          !.sends[s].thrown = e,
                          !.sends[s].err = sendRethrows(e)])

\* The consumer calls next() on the generator (in the client: after its
\* setTimeout(0)).
SubNext(k) ==
  /\ subs[k].pc = "idle"
  /\ SetWorld(genNext(World, k))

\* The generator resumes after its promise was resolved.
SubResume(k) ==
  /\ subs[k].pc = "resolved"
  /\ SetWorld(genResume(World, k))

\* ------------------------------------------------------ StreamProcessor
\* Text is a sequence of tokens; a token keeps the connect() call it came
\* from. trim() of a text is empty iff every token is whitespace.
Token(c) == [src |-> c.src, ch |-> c.delta]

IsBlank(text) == \A i \in DOMAIN text : text[i].ch = " "

TextPart(content) == [type |-> "text", content |-> content]

UIMessage(id, role, parts) ==
  [id |-> id, role |-> role, parts |-> parts,
   createdAt |-> 0]        \* the clock when the processor made the message

\* A lifecycle callback the processor fires (StreamProcessorEvents).
Ev(name, message) == [ev |-> name, message |-> message]

\* onTextUpdate(messageId, text)
TextEv(messageId, text) ==
  [ev |-> "onTextUpdate", message |-> "", messageId |-> messageId, text |-> text]

\* onToolCallStateChange(messageId, toolCallId, state, args)
ToolEv(messageId, toolCallId, state, args) ==
  [ev |-> "onToolCallStateChange", message |-> "", messageId |-> messageId,
   toolCallId |-> toolCallId, state |-> state, args |-> args]

NewProcessor ==
  [messages |-> <<>>,
   messageStates |-> <<>>,          \* Map<messageId, MessageStreamState>
   activeMessageIds |-> <<>>,       \* insertion-ordered Set
   toolCallToMessage |-> <<>>,      \* Map<toolCallId, messageId>
   pendingManualMessageId |-> 0,    \* 0: null
   finishReason |-> "null",
   hasError |-> FALSE,
   isDone |-> FALSE,
   nextId |-> 0,                    \* generateMessageId()
   now |-> 0,                       \* the clock that new Date() reads
   chunkStrategy |-> "immediate"]   \* options.chunkStrategy || new ImmediateStrategy()

\* The StreamProcessor of stream/types.ts after construction (with the
\* ImmediateStrategy), no process() call made
NewLegacy ==
  [textContent |-> <<>>,
   lastEmittedText |-> <<>>,
   toolCalls |-> <<>>,              \* Map<id, InternalToolCallState>
   toolCallOrder |-> <<>>,
   pc |-> "idle",                   \* process(): "idle" | "reading" | "returned"
   chunks |-> 0,                    \* chunks the parsed stream has yielded
   handlers |-> <<>>]               \* the handler calls made, in order

\* createMessageState(messageId, role)
NewMessageState(role) ==
  [role |-> role,
   totalTextContent |-> <<>>,
   currentSegmentText |-> <<>>,
   lastEmittedText |-> <<>>,
   thinkingContent |-> <<>>,
   toolCalls |-> <<>>,              \* Map<toolCallId, InternalToolCallState>
   toolCallOrder |-> <<>>,
   hasToolCallsSinceTextStart |-> FALSE,
   isComplete |-> FALSE]

MaxOf(S) == CHOOSE x \in S : \A y \in S : y <= x

HasState(P, id) == id \in DOMAIN P.messageStates

AddActive(ids, id) ==
  IF \E i \in DOMAIN ids : ids[i] = id THEN ids ELSE Append(ids, id)

\* resetStreamState()
resetStreamState(P) ==
  [P EXCEPT !.messageStates = <<>>,
            !.activeMessageIds = <<>>,
            !.toolCallToMessage = <<>>,
            !.pendingManualMessageId = 0,
            !.finishReason = "null",
            !.hasError = FALSE,
            !.isDone = FALSE]

\* prepareAssistantMessage()
prepareAssistantMessage(P) == resetStreamState(P)

\* addUserMessage(content): returns the processor and the callbacks fired
addUserMessage(P, content) ==
  LET id == P.nextId + 1
  IN [p |-> [P EXCEPT !.nextId = id,
                      !.messages = Append(@, [UIMessage(id, "user", <<TextPart(content)>>)
                                               EXCEPT !.createdAt = P.now])],
      evs |-> <<Ev("onMessagesChange", "")>>]

\* setMessages([...messages, uiMessage]) as append() calls it
appendMessage(P, content) ==
  LET id == P.nextId + 1
  IN [p |-> [P EXCEPT !.nextId = id,
                      !.messages = Append(@, UIMessage(id, "user", <<TextPart(content)>>))],
      evs |-> <<Ev("onMessagesChange", "")>>]

\* messages.findLastIndex(m => m.role === 'user'), 1-based; 0: none
LastUserIndex(messages) ==
  LET I == {i \in DOMAIN messages : messages[i].role = "user"}
  IN IF I = {} THEN 0 ELSE MaxOf(I)

\* removeMessagesAfter(index)
removeMessagesAfter(P, index) ==
  [p |-> [P EXCEPT !.messages = SubSeq(@, 1, index)],
   evs |-> <<Ev("onMessagesChange", "")>>]

\* getActiveAssistantMessageId(): 0 for null
getActiveAssistantMessageId(P) ==
  LET ids == P.activeMessageIds
      I == {i \in DOMAIN ids :
              HasState(P, ids[i]) /\ P.messageStates[ids[i]].role = "assistant"}
  IN IF I = {} THEN 0 ELSE ids[MaxOf(I)]

\* ensureAssistantMessage(preferredId): 0 for no preferred id
ensureAssistantMessage(P, preferredId) ==
  IF preferredId # 0 /\ HasState(P, preferredId)
    THEN [p |-> P, evs |-> <<>>, messageId |-> preferredId]
    ELSE IF getActiveAssistantMessageId(P) # 0
           THEN [p |-> P, evs |-> <<>>, messageId |-> getActiveAssistantMessageId(P)]
           ELSE LET id == IF preferredId # 0 THEN preferredId ELSE P.nextId + 1
                IN [p |-> [P EXCEPT
                             !.nextId = IF preferredId # 0 THEN @ ELSE id,
                             !.messages = Append(@, [UIMessage(id, "assistant", <<>>)
                                                      EXCEPT !.createdAt = P.now]),
                             !.messageStates = (id :> NewMessageState("assistant")) @@ @,
                             !.activeMessageIds = AddActive(@, id),
                             !.pendingManualMessageId = id],
                    evs |-> <<Ev("onStreamStart", ""), Ev("onMessagesChange", "")>>,
                    messageId |-> id]

\* updateTextPart(messages, messageId, content): replace the content of the
\* message's last part when that is a TextPart, else push a new TextPart.
updateTextPart(messages, messageId, content) ==
  [i \in DOMAIN messages |->
     IF messages[i].id # messageId
       THEN messages[i]
       ELSE LET parts == messages[i].parts
            IN IF Len(parts) > 0 /\ parts[Len(parts)].type = "text"
                 THEN [messages[i] EXCEPT !.parts[Len(parts)].content = content]
                 ELSE [messages[i] EXCEPT !.parts = Append(parts, TextPart(content))]]

ToolCallPart(id, name, arguments, state) ==
  [type |-> "tool-call", id |-> id, name |-> name, arguments |-> arguments,
   state |-> state, output |-> "undefined",
   approval |-> [id |-> "", approved |-> "undefined"]]      \* id "": no approval

ToolResultPart(toolCallId, content, state, errorText) ==
  [type |-> "tool-result", toolCallId |-> toolCallId, content |-> content,
   state |-> state, error |-> errorText]

ThinkingPart(content) == [type |-> "thinking", content |-> content]

IsToolCall(part, id) == part.type = "tool-call" /\ part.id = id

IsToolResult(part, id) == part.type = "tool-result" /\ part.toolCallId = id

MinOf(S) == CHOOSE x \in S : \A y \in S : x <= y

\* updateToolCallPart(messages, messageId, {id, name, arguments, state}):
\* upsert by id in the message.
updateToolCallPart(messages, messageId, id, name, arguments, state) ==
  [i \in DOMAIN messages |->
     IF messages[i].id # messageId
       THEN messages[i]
       ELSE LET parts == messages[i].parts
                I == {j \in DOMAIN parts : IsToolCall(parts[j], id)}
            IN IF I # {}
                 THEN [messages[i] EXCEPT !.parts[MinOf(I)] =
                         [@ EXCEPT !.name = name, !.arguments = arguments, !.state = state]]
                 ELSE [messages[i] EXCEPT !.parts =
                         Append(parts, ToolCallPart(id, name, arguments, state))]]

\* updateToolCallWithOutput(messages, toolCallId, output, state?, error?):
\* set output on the matching ToolCallPart, and its state when one is given
\* ("undefined": none).
updateToolCallWithOutput(messages, toolCallId, output, state) ==
  [i \in DOMAIN messages |->
     LET parts == messages[i].parts
         I == {j \in DOMAIN parts : IsToolCall(parts[j], toolCallId)}
     IN IF I = {}
          THEN messages[i]
          ELSE [messages[i] EXCEPT !.parts[MinOf(I)] =
                  [@ EXCEPT !.output = output,
                            !.state = IF state # "undefined" THEN state ELSE @]]]

\* updateToolCallApproval(messages, messageId, toolCallId, approvalId): attach
\* the approval to the part and set its state to approval-requested.
updateToolCallApproval(messages, messageId, toolCallId, approvalId) ==
  [i \in DOMAIN messages |->
     IF messages[i].id # messageId
       THEN messages[i]
       ELSE LET parts == messages[i].parts
                I == {j \in DOMAIN parts : IsToolCall(parts[j], toolCallId)}
            IN IF I = {}
                 THEN messages[i]
                 ELSE [messages[i] EXCEPT !.parts[MinOf(I)] =
                         [@ EXCEPT !.approval = [id |-> approvalId, approved |-> "undefined"],
                                   !.state = "approval-requested"]]]

\* updateToolCallApprovalResponse(messages, approvalId, approved): set the
\* decision on the part with that approval and its state to approval-responded.
updateToolCallApprovalResponse(messages, approvalId, approved) ==
  [i \in DOMAIN messages |->
     [messages[i] EXCEPT !.parts =
        [j \in DOMAIN @ |->
           IF @[j].type = "tool-call" /\ @[j].approval.id = approvalId
             THEN [@[j] EXCEPT !.approval.approved = approved,
                               !.state = "approval-responded"]
             ELSE @[j]]]]

\* updateToolResultPart(messages, messageId, toolCallId, content, state,
\* error?): upsert the ToolResultPart of the call in the message.
updateToolResultPart(messages, messageId, toolCallId, content, state, errorText) ==
  [i \in DOMAIN messages |->
     IF messages[i].id # messageId
       THEN messages[i]
       ELSE LET parts == messages[i].parts
                I == {j \in DOMAIN parts : IsToolResult(parts[j], toolCallId)}
                part == ToolResultPart(toolCallId, content, state, errorText)
            IN IF I # {}
                 THEN [messages[i] EXCEPT !.parts[MinOf(I)] = part]
                 ELSE [messages[i] EXCEPT !.parts = Append(parts, part)]]

\* updateThinkingPart(messages, messageId, content): replace the latest
\* ThinkingPart in place, push one if there is none.
updateThinkingPart(messages, messageId, content) ==
  [i \in DOMAIN messages |->
     IF messages[i].id # messageId
       THEN messages[i]
       ELSE LET parts == messages[i].parts
                I == {j \in DOMAIN parts : parts[j].type = "thinking"}
            IN IF I # {}
                 THEN [messages[i] EXCEPT !.parts[MaxOf(I)].content = content]
                 ELSE [messages[i] EXCEPT !.parts = Append(parts, ThinkingPart(content))]]

\* emitTextUpdateForMessage(messageId)
emitTextUpdateForMessage(P, id) ==
  IF ~HasState(P, id)
    THEN [p |-> P, evs |-> <<>>]
    ELSE LET text == P.messageStates[id].currentSegmentText
         IN [p |-> [P EXCEPT !.messageStates[id].lastEmittedText = text,
                             !.messages = updateTextPart(@, id, text)],
             evs |-> <<Ev("onMessagesChange", ""), TextEv(id, text)>>]

\* completeToolCall that sets the internal state and leaves the ToolCallPart
\* as it was.
completeToolCallStateOnly(P, messageId, id) ==
  [p |-> [P EXCEPT !.messageStates[messageId].toolCalls[id].state = "input-complete"],
   evs |-> <<ToolEv(messageId, id, "input-complete",
                    P.messageStates[messageId].toolCalls[id].arguments)>>]

\* completeToolCall(messageId, index, toolCall)
completeToolCall(P, messageId, id) ==
  LET tc == P.messageStates[messageId].toolCalls[id]
  IN [p |-> [P EXCEPT !.messageStates[messageId].toolCalls[id].state = "input-complete",
                      !.messages = updateToolCallPart(@, messageId, id, tc.name,
                                                      tc.arguments, "input-complete")],
      evs |-> <<Ev("onMessagesChange", ""),
                ToolEv(messageId, id, "input-complete", tc.arguments)>>]

\* The forEach of completeAllToolCallsForMessage over the message's tool
\* calls (a Map: in insertion order, which is toolCallOrder), from position i.
RECURSIVE completeFrom(_, _, _, _)
completeFrom(P, messageId, i, evs) ==
  LET st == P.messageStates[messageId]
  IN IF i > Len(st.toolCallOrder)
       THEN [p |-> P, evs |-> evs]
       ELSE LET id == st.toolCallOrder[i]
            IN IF st.toolCalls[id].state # "input-complete"
                 THEN LET c == completeToolCall(P, messageId, id)
                      IN completeFrom(c.p, messageId, i + 1, evs \o c.evs)
                 ELSE completeFrom(P, messageId, i + 1, evs)

\* completeAllToolCallsForMessage(messageId)
completeAllToolCallsForMessage(P, messageId) ==
  IF ~HasState(P, messageId)
    THEN [p |-> P, evs |-> <<>>]
    ELSE completeFrom(P, messageId, 1, <<>>)

\* completeAllToolCalls(): the loop over activeMessageIds, from position i
RECURSIVE completeActiveFrom(_, _, _)
completeActiveFrom(P, i, evs) ==
  IF i > Len(P.activeMessageIds)
    THEN [p |-> P, evs |-> evs]
    ELSE LET c == completeAllToolCallsForMessage(P, P.activeMessageIds[i])
         IN completeActiveFrom(c.p, i + 1, evs \o c.evs)

completeAllToolCalls(P) == completeActiveFrom(P, 1, <<>>)

\* a.startsWith(b), for texts as token sequences
StartsWith(a, b) == Len(b) <= Len(a) /\ SubSeq(a, 1, Len(b)) = b

\* isNewTextSegment(chunk, previous)
isNewTextSegment(chunk, previous) ==
  /\ chunk.hasContent
  /\ \/ Len(chunk.content) < Len(previous)
     \/ ~StartsWith(chunk.content, previous) /\ ~StartsWith(previous, chunk.content)

\* The chunk strategies a processor is constructed with: the default one,
\* one that never asks for an update, and one that asks for it at every
\* second token of the segment.
Strategies == {"immediate", "never", "batch"}

\* ChunkStrategy.shouldEmit(chunk, accumulated) of the strategy
shouldEmit(strategy, accumulated) ==
  CASE strategy = "immediate" -> TRUE
    [] strategy = "never" -> FALSE
    [] strategy = "batch" -> Len(accumulated) % 2 = 0

\* The last step that emits whenever the text differs from the emitted text.
textEmitAlways(P, id, nextText, evs) ==
  IF nextText # P.messageStates[id].lastEmittedText
    THEN LET u == emitTextUpdateForMessage(P, id)
         IN [p |-> u.p, evs |-> evs \o u.evs]
    ELSE [p |-> P, evs |-> evs]

\* handleTextMessageContentEvent(chunk), written as the steps of the
\* handler, each given the processor the step before left, the message id
\* and the callbacks fired so far.
\* The last step: emit when the strategy says so and the segment text
\* differs from the emitted text.
textEmit(P, id, nextText, evs) ==
  IF shouldEmit(P.chunkStrategy, nextText) /\ nextText # P.messageStates[id].lastEmittedText
    THEN LET u == emitTextUpdateForMessage(P, id)
         IN [p |-> u.p, evs |-> evs \o u.evs]
    ELSE [p |-> P, evs |-> evs]

\* The reconciliation that looks at the content before the delta.
nextSegmentTextContentFirst(chunk, currentText) ==
  IF chunk.hasContent /\ chunk.content # <<>>
    THEN IF StartsWith(chunk.content, currentText)
           THEN chunk.content
           ELSE IF StartsWith(currentText, chunk.content)
                  THEN currentText
                  ELSE currentText \o chunk.content
    ELSE IF chunk.delta # ""
           THEN Append(currentText, Token(chunk))
           ELSE currentText

\* The segment text after the chunk: the delta appended, else the content
\* reconciled with the text so far.
nextSegmentText(chunk, currentText) ==
  IF chunk.delta # ""
    THEN Append(currentText, Token(chunk))
    ELSE IF chunk.hasContent /\ chunk.content # <<>>
           THEN IF StartsWith(chunk.content, currentText)
                  THEN chunk.content
                  ELSE IF StartsWith(currentText, chunk.content)
                         THEN currentText
                         ELSE currentText \o chunk.content
           ELSE currentText

\* totalTextContent takes the whole text of the segment again at every chunk.
textAccumulateWhole(P, id, currentText, nextText, evs) ==
  textEmit([P EXCEPT !.messageStates[id].currentSegmentText = nextText,
                     !.messageStates[id].totalTextContent = @ \o nextText],
           id, nextText, evs)

\* currentSegmentText and totalTextContent take the chunk's text.
textAccumulate(P, id, currentText, nextText, evs) ==
  textEmit([P EXCEPT !.messageStates[id].currentSegmentText = nextText,
                     !.messageStates[id].totalTextContent =
                       @ \o SubSeq(nextText, Len(currentText) + 1, Len(nextText))],
           id, nextText, evs)

textInSegment(P, id, chunk, evs) ==
  textAccumulate(P, id, P.messageStates[id].currentSegmentText,
                 nextSegmentText(chunk, P.messageStates[id].currentSegmentText), evs)

\* After the tool calls of the message were completed: a new segment begins
\* when tool calls came since the text started, there is previous text and
\* isNewTextSegment says so; the previous segment is flushed and reset.
textSegment(P, id, chunk, evs) ==
  LET st == P.messageStates[id]
  IN IF /\ st.hasToolCallsSinceTextStart
        /\ Len(st.currentSegmentText) > 0
        /\ isNewTextSegment(chunk, st.currentSegmentText)
       THEN LET f == IF st.currentSegmentText # st.lastEmittedText
                       THEN emitTextUpdateForMessage(P, id)
                       ELSE [p |-> P, evs |-> <<>>]
            IN textInSegment(
                 [f.p EXCEPT !.messageStates[id].currentSegmentText = <<>>,
                             !.messageStates[id].lastEmittedText = <<>>,
                             !.messageStates[id].hasToolCallsSinceTextStart = FALSE],
                 id, chunk, evs \o f.evs)
       ELSE textInSegment(P, id, chunk, evs)

textAfterToolCalls(c, id, chunk, evs) == textSegment(c.p, id, chunk, evs \o c.evs)

textWithMessage(e, chunk) ==
  textAfterToolCalls(completeAllToolCallsForMessage(e.p, e.messageId),
                     e.messageId, chunk, e.evs)

handleTextMessageContentEvent(P, chunk) ==
  textWithMessage(ensureAssistantMessage(P, chunk.messageId), chunk)

\* isWhitespaceOnlyMessage without the trim(): only empty text counts
isEmptyTextMessage(m) ==
  /\ Len(m.parts) > 0
  /\ \A i \in DOMAIN m.parts : m.parts[i].type = "text" /\ m.parts[i].content = <<>>

\* isWhitespaceOnlyMessage(message)
isWhitespaceOnlyMessage(m) ==
  /\ Len(m.parts) > 0
  /\ \A i \in DOMAIN m.parts : m.parts[i].type = "text" /\ IsBlank(m.parts[i].content)

FindMessage(messages, id) ==
  LET I == {i \in DOMAIN messages : messages[i].id = id}
  IN IF I = {} THEN 0 ELSE CHOOSE i \in I : \A j \in I : i <= j

\* The result r of a step, after the callbacks evs fired before it.
withEvents(evs, r) == [p |-> r.p, evs |-> evs \o r.evs]

\* One round of the loop of finalizeStream(), for the active message id
\* whose tool calls were completed (c): pending text is flushed.
finalizeFlush(c, id) ==
  IF c.p.messageStates[id].currentSegmentText # c.p.messageStates[id].lastEmittedText
    THEN withEvents(c.evs, emitTextUpdateForMessage(c.p, id))
    ELSE c

\* messages.find((m) => m.id === messageId) is an assistant message
\* (m: its position, 0 when there is none).
IsAssistantAt(P, m) == m # 0 /\ P.messages[m].role = "assistant"

IsAssistantMessage(P, id) == IsAssistantAt(P, FindMessage(P.messages, id))

\* The loop of finalizeStream() over activeMessageIds, from position i:
\* complete the tool calls, flush pending text, mark the state complete,
\* remember the last assistant message (last: its id, 0 for undefined).
RECURSIVE finalizeActive(_, _, _, _)
finalizeRound(u, id, i, evs, last) ==
  finalizeActive([u.p EXCEPT !.messageStates[id].isComplete = TRUE], i + 1,
                 evs \o u.evs,
                 IF IsAssistantMessage(u.p, id) THEN id ELSE last)

finalizeActive(P, i, evs, last) ==
  IF i > Len(P.activeMessageIds)
    THEN [p |-> P, evs |-> evs, last |-> last]
    ELSE IF ~HasState(P, P.activeMessageIds[i])
           THEN finalizeActive(P, i + 1, evs, last)
           ELSE finalizeRound(
                  finalizeFlush(completeAllToolCallsForMessage(P, P.activeMessageIds[i]),
                                P.activeMessageIds[i]),
                  P.activeMessageIds[i], i, evs, last)

\* The end of finalizeStream(): the last assistant message (at position m of
\* the messages, 0: none) is removed when it is whitespace only and no error
\* occurred, else onStreamEnd fires for it.
finalizeLast(P, last, m, evs) ==
  IF m # 0 /\ ~P.hasError /\ isWhitespaceOnlyMessage(P.messages[m])
    THEN [p |-> [P EXCEPT !.messages = SelectSeq(P.messages, LAMBDA x : x.id # last)],
          evs |-> evs \o <<Ev("onMessagesChange", "")>>]
    ELSE IF m # 0
           THEN [p |-> P, evs |-> evs \o <<Ev("onStreamEnd", "")>>]
           ELSE [p |-> P, evs |-> evs]

finalizeCleared(f) ==
  finalizeLast([f.p EXCEPT !.activeMessageIds = <<>>], f.last,
               IF f.last = 0 THEN 0 ELSE FindMessage(f.p.messages, f.last), f.evs)

\* finalizeStream()
finalizeStream(P) == finalizeCleared(finalizeActive(P, 1, <<>>, 0))

runFinished(c) == withEvents(c.evs, finalizeStream(c.p))

\* handleRunFinishedEvent(chunk)
handleRunFinishedEvent(P, chunk) ==
  runFinished(completeAllToolCalls([P EXCEPT !.finishReason = "stop", !.isDone = TRUE]))

\* handleRunErrorEvent(chunk)
handleRunErrorEvent(P, chunk) ==
  LET e == ensureAssistantMessage([P EXCEPT !.hasError = TRUE], 0)
  IN [p |-> e.p,
      evs |-> e.evs \o <<Ev("onError",
                IF chunk.message # "" THEN chunk.message ELSE "An error occurred")>>]

\* handleTextMessageStartEvent(chunk)
handleTextMessageStartEvent(P, chunk) ==
  LET messageId == chunk.messageId
      uiRole == IF chunk.role = "tool" THEN "assistant" ELSE chunk.role
      pendingId == P.pendingManualMessageId
  IN IF pendingId # 0
       THEN \* Case 1: a message was created before the server's id was known
            LET P1 == [P EXCEPT !.pendingManualMessageId = 0]
                P2 == IF pendingId = messageId
                        THEN P1
                        ELSE [P1 EXCEPT
                                !.messages = [i \in DOMAIN @ |->
                                                IF @[i].id = pendingId
                                                  THEN [@[i] EXCEPT !.id = messageId]
                                                  ELSE @[i]],
                                !.messageStates =
                                   IF pendingId \in DOMAIN @
                                     THEN (messageId :> @[pendingId])
                                            @@ [k \in DOMAIN @ \ {pendingId} |-> @[k]]
                                     ELSE @,
                                !.activeMessageIds =
                                   AddActive(SelectSeq(@, LAMBDA x : x # pendingId), messageId)]
                P3 == IF HasState(P2, messageId)
                        THEN P2
                        ELSE [P2 EXCEPT
                                !.messageStates = (messageId :> NewMessageState(uiRole)) @@ @,
                                !.activeMessageIds = AddActive(@, messageId)]
            IN [p |-> P3, evs |-> <<Ev("onMessagesChange", "")>>]
       ELSE IF FindMessage(P.messages, messageId) # 0
              THEN \* Case 2: the message already exists
                   LET P1 == [P EXCEPT !.activeMessageIds = AddActive(@, messageId)]
                   IN IF ~HasState(P1, messageId)
                        THEN [p |-> [P1 EXCEPT !.messageStates =
                                       (messageId :> NewMessageState(uiRole)) @@ @],
                              evs |-> <<>>]
                        ELSE LET st == P1.messageStates[messageId]
                             IN IF st.hasToolCallsSinceTextStart
                                  THEN LET u == IF st.currentSegmentText # st.lastEmittedText
                                                  THEN emitTextUpdateForMessage(P1, messageId)
                                                  ELSE [p |-> P1, evs |-> <<>>]
                                       IN [p |-> [u.p EXCEPT
                                                    !.messageStates[messageId].currentSegmentText = <<>>,
                                                    !.messageStates[messageId].lastEmittedText = <<>>,
                                                    !.messageStates[messageId].hasToolCallsSinceTextStart = FALSE],
                                           evs |-> u.evs]
                                  ELSE [p |-> P1, evs |-> <<>>]
              ELSE \* Case 3: a new message from the stream
                   [p |-> [P EXCEPT
                             !.messages = Append(@, [UIMessage(messageId, uiRole, <<>>)
                                                      EXCEPT !.createdAt = P.now]),
                             !.messageStates = (messageId :> NewMessageState(uiRole)) @@ @,
                             !.activeMessageIds = AddActive(@, messageId)],
                    evs |-> <<Ev("onStreamStart", ""), Ev("onMessagesChange", "")>>]

\* handleTextMessageEndEvent(chunk)
handleTextMessageEndEvent(P, chunk) ==
  LET messageId == chunk.messageId
  IN IF ~HasState(P, messageId) \/ P.messageStates[messageId].isComplete
       THEN [p |-> P, evs |-> <<>>]
       ELSE LET st == P.messageStates[messageId]
                u == IF st.currentSegmentText # st.lastEmittedText
                       THEN emitTextUpdateForMessage(P, messageId)
                       ELSE [p |-> P, evs |-> <<>>]
                c == completeAllToolCallsForMessage(u.p, messageId)
            IN [p |-> c.p, evs |-> u.evs \o c.evs]

\* handleToolCallStartEvent(chunk); chunk.messageId is parentMessageId
handleToolCallStartEvent(P, chunk) ==
  LET targetMessageId == IF chunk.messageId # 0
                           THEN chunk.messageId
                           ELSE getActiveAssistantMessageId(P)
      e == ensureAssistantMessage(P, targetMessageId)
      messageId == e.messageId
      P1 == [e.p EXCEPT !.messageStates[messageId].hasToolCallsSinceTextStart = TRUE]
      toolCallId == chunk.toolCallId
  IN IF toolCallId \in DOMAIN P1.messageStates[messageId].toolCalls
       THEN [p |-> P1, evs |-> e.evs]
       ELSE [p |-> [P1 EXCEPT
                      !.messageStates[messageId].toolCalls =
                         (toolCallId :> [name |-> chunk.name, arguments |-> <<>>,
                                         state |-> "awaiting-input"]) @@ @,
                      !.messageStates[messageId].toolCallOrder = Append(@, toolCallId),
                      !.toolCallToMessage =
                         (toolCallId :> messageId)
                           @@ [k \in DOMAIN @ \ {toolCallId} |-> @[k]],
                      !.messages = updateToolCallPart(@, messageId, toolCallId, chunk.name,
                                                      <<>>, "awaiting-input")],
             evs |-> e.evs \o <<Ev("onMessagesChange", ""),
                                 ToolEv(messageId, toolCallId, "awaiting-input", <<>>)>>]

\* The tool call of the chunk as handleToolCallArgsEvent and
\* handleToolCallEndEvent look it up: the message toolCallToMessage names
\* and whether that message's state holds the call.
RoutedMessage(P, toolCallId) ==
  IF toolCallId \in DOMAIN P.toolCallToMessage
       /\ HasState(P, P.toolCallToMessage[toolCallId])
    THEN P.toolCallToMessage[toolCallId]
    ELSE 0

HasToolCall(P, messageId, toolCallId) ==
  toolCallId \in DOMAIN P.messageStates[messageId].toolCalls

\* handleToolCallArgsEvent with "arguments = delta" for "arguments += delta"
handleToolCallArgsEventOverwrites(P, chunk) ==
  LET toolCallId == chunk.toolCallId
      messageId == RoutedMessage(P, toolCallId)
  IN IF messageId = 0 \/ ~HasToolCall(P, messageId, toolCallId)
       THEN [p |-> P, evs |-> <<>>]
       ELSE LET tc == P.messageStates[messageId].toolCalls[toolCallId]
                arguments == IF chunk.delta # "" THEN <<chunk.delta>> ELSE <<>>
                state == IF tc.state = "awaiting-input" /\ chunk.delta # ""
                           THEN "input-streaming" ELSE tc.state
            IN [p |-> [P EXCEPT
                         !.messageStates[messageId].toolCalls[toolCallId].arguments = arguments,
                         !.messageStates[messageId].toolCalls[toolCallId].state = state,
                         !.messages = updateToolCallPart(@, messageId, toolCallId, tc.name,
                                                         arguments, state)],
                evs |-> <<Ev("onMessagesChange", ""),
                          ToolEv(messageId, toolCallId, state, arguments)>>]

\* handleToolCallArgsEvent(chunk)
handleToolCallArgsEvent(P, chunk) ==
  LET toolCallId == chunk.toolCallId
      messageId == RoutedMessage(P, toolCallId)
  IN IF messageId = 0 \/ ~HasToolCall(P, messageId, toolCallId)
       THEN [p |-> P, evs |-> <<>>]
       ELSE LET tc == P.messageStates[messageId].toolCalls[toolCallId]
                arguments == IF chunk.delta # "" THEN Append(tc.arguments, chunk.delta)
                                                 ELSE tc.arguments
                state == IF tc.state = "awaiting-input" /\ chunk.delta # ""
                           THEN "input-streaming" ELSE tc.state
            IN [p |-> [P EXCEPT
                         !.messageStates[messageId].toolCalls[toolCallId].arguments = arguments,
                         !.messageStates[messageId].toolCalls[toolCallId].state = state,
                         !.messages = updateToolCallPart(@, messageId, toolCallId, tc.name,
                                                         arguments, state)],
                evs |-> <<Ev("onMessagesChange", ""),
                          ToolEv(messageId, toolCallId, state, arguments)>>]

\* handleToolCallEndEvent(chunk)
handleToolCallEndEvent(P, chunk) ==
  LET toolCallId == chunk.toolCallId
      messageId == RoutedMessage(P, toolCallId)
  IN IF messageId = 0
       THEN [p |-> P, evs |-> <<>>]
       ELSE LET c == IF HasToolCall(P, messageId, toolCallId)
                          /\ P.messageStates[messageId].toolCalls[toolCallId].state
                                # "input-complete"
                       THEN completeToolCall(P, messageId, toolCallId)
                       ELSE [p |-> P, evs |-> <<>>]
            IN IF chunk.result = ""
                 THEN c
                 ELSE [p |-> [c.p EXCEPT !.messages =
                                updateToolResultPart(
                                  updateToolCallWithOutput(@, toolCallId, chunk.result,
                                                           "undefined"),
                                  messageId, toolCallId, chunk.result, "complete", "")],
                       evs |-> c.evs \o <<Ev("onMessagesChange", "")>>]

\* handleStepFinishedEvent(chunk) for a chunk that carries a delta
handleStepFinishedEvent(P, chunk) ==
  LET e == ensureAssistantMessage(P, getActiveAssistantMessageId(P))
      messageId == e.messageId
      previous == e.p.messageStates[messageId].thinkingContent
      nextThinking == IF chunk.delta # "" THEN Append(previous, Token(chunk)) ELSE previous
  IN [p |-> [e.p EXCEPT !.messageStates[messageId].thinkingContent = nextThinking,
                        !.messages = updateThinkingPart(@, messageId, nextThinking)],
      evs |-> e.evs \o <<Ev("onMessagesChange", ""), Ev("onThinkingUpdate", "")>>]

\* handleCustomEvent(chunk): chunk.name with data {toolCallId, approval.id}
handleCustomEvent(P, chunk) ==
  LET messageId == getActiveAssistantMessageId(P)
  IN CASE chunk.name = "tool-input-available" ->
            [p |-> P, evs |-> <<Ev("onToolCall", chunk.toolCallId)>>]
       [] chunk.name = "approval-requested" ->
            IF messageId # 0
              THEN [p |-> [P EXCEPT !.messages =
                             updateToolCallApproval(@, messageId, chunk.toolCallId,
                                                    chunk.approvalId)],
                    evs |-> <<Ev("onMessagesChange", ""),
                              Ev("onApprovalRequest", chunk.toolCallId)>>]
              ELSE [p |-> P, evs |-> <<Ev("onApprovalRequest", chunk.toolCallId)>>]
       [] OTHER -> [p |-> P, evs |-> <<>>]

\* processChunk(chunk)
processChunk(P, chunk) ==
  CASE chunk.type = "TEXT_MESSAGE_START" -> handleTextMessageStartEvent(P, chunk)
    [] chunk.type = "TEXT_MESSAGE_CONTENT" -> handleTextMessageContentEvent(P, chunk)
    [] chunk.type = "TEXT_MESSAGE_END" -> handleTextMessageEndEvent(P, chunk)
    [] chunk.type = "TOOL_CALL_START" -> handleToolCallStartEvent(P, chunk)
    [] chunk.type = "TOOL_CALL_ARGS" -> handleToolCallArgsEvent(P, chunk)
    [] chunk.type = "TOOL_CALL_END" -> handleToolCallEndEvent(P, chunk)
    [] chunk.type = "RUN_FINISHED" -> handleRunFinishedEvent(P, chunk)
    [] chunk.type = "RUN_ERROR" -> handleRunErrorEvent(P, chunk)
    [] chunk.type = "STEP_FINISHED" -> handleStepFinishedEvent(P, chunk)
    [] chunk.type = "CUSTOM" -> handleCustomEvent(P, chunk)
    [] OTHER -> [p |-> P, evs |-> <<>>]

\* The first message that holds a ToolCallPart of the call: 0 for none
MessageWithToolCall(messages, toolCallId) ==
  LET I == {i \in DOMAIN messages :
              \E j \in DOMAIN messages[i].parts :
                IsToolCall(messages[i].parts[j], toolCallId)}
  IN IF I = {} THEN 0 ELSE MinOf(I)

\* addToolResult that sets the output of the ToolCallPart and adds no
\* ToolResultPart.
addToolResultOutputOnly(P, toolCallId, output, errorText) ==
  IF MessageWithToolCall(P.messages, toolCallId) = 0
    THEN [p |-> P, evs |-> <<>>]
    ELSE [p |-> [P EXCEPT !.messages =
                   updateToolCallWithOutput(@, toolCallId, output,
                     IF errorText # "" THEN "input-complete" ELSE "undefined")],
          evs |-> <<Ev("onMessagesChange", "")>>]

\* addToolResult(toolCallId, output, error?): errorText "" for no error
addToolResult(P, toolCallId, output, errorText) ==
  LET m == MessageWithToolCall(P.messages, toolCallId)
  IN IF m = 0
       THEN [p |-> P, evs |-> <<>>]
       ELSE [p |-> [P EXCEPT !.messages =
                      updateToolResultPart(
                        updateToolCallWithOutput(@, toolCallId, output,
                          IF errorText # "" THEN "input-complete" ELSE "undefined"),
                        P.messages[m].id, toolCallId, output,
                        IF errorText # "" THEN "error" ELSE "complete", errorText)],
             evs |-> <<Ev("onMessagesChange", "")>>]

\* addToolApprovalResponse(approvalId, approved)
addToolApprovalResponse(P, approvalId, approved) ==
  [p |-> [P EXCEPT !.messages = updateToolCallApprovalResponse(@, approvalId, approved)],
   evs |-> <<Ev("onMessagesChange", "")>>]

\* areAllToolsComplete()
areAllToolsComplete(P) ==
  LET A == {i \in DOMAIN P.messages : P.messages[i].role = "assistant"}
  IN IF A = {}
       THEN TRUE
       ELSE LET parts == P.messages[MaxOf(A)].parts
                toolResultIds == {parts[j].toolCallId :
                                    j \in {k \in DOMAIN parts : parts[k].type = "tool-result"}}
            IN \A j \in DOMAIN parts :
                 parts[j].type = "tool-call" =>
                   \/ parts[j].state = "approval-responded"
                   \/ parts[j].output # "undefined" /\ parts[j].approval.id = ""
                   \/ parts[j].id \in toolResultIds

\* ------------------------------------------------------------ ChatClient
\* A streamResponse() invocation, named by its generation. pc is the await it
\* is suspended at:
\*   "none"        not started
\*   "onResponse"  await this.callbacksRef.current.onResponse()
\*   "send"        await this.session.send(...)
\*   "processing"  await processingComplete
\*   "draining"    in finally, inside drainPostStreamActions: await action()
\*                 (await: the invocation the action started, 0 when it
\*                 returned at once)
\*   "drained"     in finally: await this.drainPostStreamActions() returned
\*   "continuing"  in finally: await this.checkForContinuation(), which
\*                 awaits the streamResponse it started (await: that invocation)
\*   "done"        settled
\* completed is streamCompletedSuccessfully.
NoInv ==
  [pc |-> "none", completed |-> FALSE, await |-> 0,
   awaitedBy |-> "",     \* the call of the user that awaits this streamResponse
   awaitTools |-> {}]    \* the tool executions its Promise.all awaits

\* The invocations between their start and their catch / finally.
InFlightGens(W) ==
  {g \in Gens : W.inv[g].pc \in {"onResponse", "send", "processing"}}

NoHist ==
  [stopped |-> {},          \* streams in flight when stop() was called
   superseded |-> {},       \* streams in flight when reload() was called
   processed |-> <<>>,      \* every chunk passed to processChunk, in order
   stale |-> {},            \* chunks of a cancelled stream passed to processChunk
                            \* afterwards (change: onMessagesChange fired)
   errAfterCancel |-> {},   \* cancelled streams that afterwards set the error state
   finished |-> {},         \* streams whose RUN_FINISHED reached processChunk
   errProcessed |-> {},     \* streams whose RUN_ERROR reached processChunk
   finalized |-> {},        \* streams for which streamResponse called finalizeStream()
   continuable |-> {},      \* those of them after which the last part was a
                            \* tool-result and areAllToolsComplete() was true
   before |-> <<>>,         \* the text a stream sent before its tool call
   after |-> <<>>,          \* the text it sent after the result of the tool call
   preStream |-> <<>>,      \* the messages when the current stream began
   userAdded |-> <<>>,      \* the messages addUserMessage returned, in order
   toolLog |-> <<>>,        \* the TOOL_CALL_START / ARGS / END events a
                            \* well-formed stream sent, in order
   segments |-> <<>>,       \* per message state, the text of its segments that
                            \* were reset, one after the other
   updates |-> <<>>,        \* per message state, the value onTextUpdate was
                            \* last given
   nonPrefix |-> {},        \* the onTextUpdate values that did not extend the
                            \* value before them in their segment
   endedEarly |-> {},       \* the streams for which onStreamEnd fired, with a
                            \* tool execution of theirs that had not settled
   ended |-> {},            \* the streams whose chunk or finalizeStream() call
                            \* fired onStreamEnd
   endedTwice |-> {},       \* those of them for which it fired again
   recording |-> [chunks |-> <<>>, done |-> FALSE],
                            \* the chunks process() recorded, and whether it
                            \* has returned
   toolStates |-> <<>>,     \* per message and tool call, the states
                            \* onToolCallStateChange reported, in order (repeats
                            \* of a state left out)
   reload |-> [gen |-> 0, base |-> <<>>, appends |-> 0]]
                            \* the last reload() of a live stream: the stream it
                            \* started and the messages it kept

\* The streams stop() or reload() cancelled.
Cancelled(W) == W.hist.stopped \cup W.hist.superseded

\* The streams in flight whose RUN_FINISHED has not been processed.
LiveGens(W) == InFlightGens(W) \ W.hist.finished

setIsLoading(W, b) == [W EXCEPT !.isLoading = b]

setStatus(W, st) == [W EXCEPT !.status = st]

setError(W, e) == [W EXCEPT !.error = e]

\* this.processingResolve?.(); this.processingResolve = null
resolveProcessing(W) ==
  [W EXCEPT !.procDone = IF W.processingResolve # 0
                           THEN @ \cup {W.processingResolve} ELSE @,
            !.processingResolve = 0]

\* The error state set for stream src: setError, setStatus('error'), onError.
reportError(W, e, src) ==
  [setStatus(setError(W, e), "error") EXCEPT
     !.hist.errAfterCancel = IF src \in Cancelled(W) THEN @ \cup {src} ELSE @]

\* The handler the constructor registered for one processor callback.
onStreamEnd(W) == resolveProcessing(setStatus(W, "ready"))

\* The tool calls whose tool has an execute function on the client.
ClientToolCalls == {"c1", "c2", "c3", "c4"}

\* onToolCall({toolCallId, toolName, input}): the execution is started and
\* tracked when the tool has an execute function.
onToolCall(W, toolCallId, src) ==
  IF toolCallId \in ClientToolCalls
    THEN [W EXCEPT !.pendingToolExecutions =
            (toolCallId :> [pc |-> "executing", src |-> src, tracked |-> TRUE,
                            errorText |-> ""])
              @@ [id \in DOMAIN @ \ {toolCallId} |-> @[id]]]
    ELSE W

\* The executions stream src started that have not settled.
Executing(W, src) ==
  {id \in DOMAIN W.pendingToolExecutions :
     /\ W.pendingToolExecutions[id].src = src
     /\ W.pendingToolExecutions[id].pc = "executing"}

callback(W, e, src) ==
  CASE e.ev = "onStreamStart" -> setStatus(W, "streaming")
    [] e.ev = "onStreamEnd" ->
         onStreamEnd([W EXCEPT !.hist.endedEarly =
                        @ \cup {[src |-> src, toolCallId |-> id] : id \in Executing(W, src)},
                               !.hist.ended = @ \cup {src},
                               !.hist.endedTwice =
                                 IF src \in W.hist.ended THEN @ \cup {src} ELSE @])
    [] e.ev = "onToolCall" -> onToolCall(W, e.message, src)
    [] e.ev = "onError" -> reportError(W, Err("Error", e.message), src)
    [] OTHER -> W

RECURSIVE callbacks(_, _, _, _)
callbacks(W, evs, i, src) ==
  IF i > Len(evs) THEN W ELSE callbacks(callback(W, evs[i], src), evs, i + 1, src)

\* A processor call made for stream src (0: the user): the new processor
\* state, then the callbacks in the order they fired.
applyProc(W, r, src) == callbacks([W EXCEPT !.processor = r.p], r.evs, 1, src)

\* startSubscription(): subscribe() and the first next() of the for-await
\* run synchronously.
startSubscription(W) ==
  IF W.nsubs >= MaxSubs
    THEN [W EXCEPT !.nsubs = MaxSubs + 1]      \* beyond the bound: see Fits
    ELSE LET k == W.nsubs + 1
         IN genNext([subscribe(W) EXCEPT !.subscriptionAbortController = k], k)

\* ensureSubscription()
ensureSubscription(W) ==
  IF W.subscriptionAbortController = 0
       \/ W.subs[W.subscriptionAbortController].aborted
    THEN startSubscription(W)
    ELSE W

\* waitForProcessing(), called by invocation g
waitForProcessing(W, g) ==
  [W EXCEPT !.procDone = IF W.processingResolve # 0
                           THEN @ \cup {W.processingResolve} ELSE @,
            !.processingResolve = g]

\* messages.at(-1)?.parts.at(-1)?.type === 'tool-result'
LastPartIsToolResult(messages) ==
  /\ messages # <<>>
  /\ messages[Len(messages)].parts # <<>>
  /\ LET parts == messages[Len(messages)].parts
     IN parts[Len(parts)].type = "tool-result"

\* streamResponse() up to its first await
streamResponse(W) ==
  IF W.isLoading
    THEN W
    ELSE IF W.streamGeneration >= MaxGen
           THEN [W EXCEPT !.streamGeneration = MaxGen + 1]    \* beyond the bound: see Fits
           ELSE LET g == W.streamGeneration + 1
                IN [setError(setStatus(setIsLoading(W, TRUE), "submitted"), NoErr)
                      EXCEPT !.streamGeneration = g,
                             !.abortController = g,
                             !.pendingToolExecutions =
                                [id \in DOMAIN @ |-> [@[id] EXCEPT !.tracked = FALSE]],
                             !.inv[g] = [NoInv EXCEPT !.pc = "onResponse"]]

\* The catch block of streamResponse
catchBlock(W, g, err) ==
  IF err.isError /\ err.name # "AbortError" /\ g = W.streamGeneration
    THEN reportError(W, err, g)
    ELSE W

\* drainPostStreamActions(): the loop from its test to its next await
drainAwait(W2, W1, g, pc) ==
  [W2 EXCEPT !.inv[g].pc = pc,
             !.inv[g].await = IF W2.streamGeneration # W1.streamGeneration
                                THEN W2.streamGeneration ELSE 0]

\* The queued continuation check without the continuationPending test.
drainActionUnguarded(W1, g, action) ==
  IF action = "checkForContinuation"
    THEN IF W1.isLoading \/ ~areAllToolsComplete(W1.processor)
           THEN [W1 EXCEPT !.inv[g].pc = "draining", !.inv[g].await = 0]
           ELSE drainAwait(streamResponse([W1 EXCEPT !.continuationPending = TRUE]),
                           W1, g, "checking")
    ELSE drainAwait(streamResponse(W1), W1, g, "draining")

\* await action(): a queued action is () => this.streamResponse() or
\* () => this.checkForContinuation()
drainAction(W1, g, action) ==
  IF action = "checkForContinuation"
    THEN IF W1.continuationPending \/ W1.isLoading \/ ~areAllToolsComplete(W1.processor)
           THEN [W1 EXCEPT !.inv[g].pc = "draining", !.inv[g].await = 0]
           ELSE drainAwait(streamResponse([W1 EXCEPT !.continuationPending = TRUE]),
                           W1, g, "checking")
    ELSE drainAwait(streamResponse(W1), W1, g, "draining")

drain(W, g) ==
  IF W.postStreamActions = <<>>
    THEN [W EXCEPT !.inv[g].pc = "drained", !.inv[g].await = 0]
    ELSE drainAction([W EXCEPT !.postStreamActions = Tail(@)], g,
                     Head(W.postStreamActions))

\* The finally block of streamResponse up to its await
finallyBlock(W, g) ==
  IF g = W.streamGeneration
    THEN drain([setIsLoading(W, FALSE) EXCEPT !.abortController = 0], g)
    ELSE [W EXCEPT !.inv[g].pc = "done"]

\* streamResponse from the return of onResponse to await session.send():
\* this.abortController.signal throws a TypeError when stop() has set the
\* field to null meanwhile.
afterOnResponse(W, g) ==
  LET W1 == [W EXCEPT !.processor = prepareAssistantMessage(@)]
      W2 == ensureSubscription(W1)
      W3 == waitForProcessing(W2, g)
  IN IF W3.abortController = 0
       THEN finallyBlock(catchBlock(W3, g, Err("TypeError", "abortController is null")), g)
       ELSE [W3 EXCEPT !.sends[g] = [NoSend EXCEPT !.pc = "running",
                                                   !.signal = W3.abortController],
                       !.inv[g].pc = "send"]

\* session.send() settled
afterSend(W, g) ==
  IF W.sends[g].pc = "resolved"
    THEN [W EXCEPT !.inv[g].pc = "processing"]
    ELSE finallyBlock(catchBlock(W, g, W.sends[g].err), g)

\* processingComplete resolved: the generation check, finalizeStream(), finally
finalized(W1, g) ==
  finallyBlock([W1 EXCEPT !.inv[g].completed = TRUE,
                          !.inv[g].awaitTools = {},
                          !.hist.finalized = @ \cup {g},
                          !.hist.continuable =
                            IF /\ LastPartIsToolResult(W1.processor.messages)
                               /\ areAllToolsComplete(W1.processor)
                              THEN @ \cup {g} ELSE @], g)

\* The pending tool executions settled: finalizeStream(), finally
afterTools(W, g) == finalized(applyProc(W, finalizeStream(W.processor), g), g)

\* The entries of the Map pendingToolExecutions
Tracked(W) ==
  {id \in DOMAIN W.pendingToolExecutions : W.pendingToolExecutions[id].tracked}

afterProcessing(W, g) ==
  IF g # W.streamGeneration
    THEN finallyBlock(W, g)
    ELSE IF Tracked(W) # {}
           THEN [W EXCEPT !.inv[g].pc = "tools", !.inv[g].awaitTools = Tracked(W)]
           ELSE afterTools(W, g)

\* shouldAutoSend()
shouldAutoSend(W) == areAllToolsComplete(W.processor)

\* checkForContinuation(), called by invocation g, up to its await
checkForContinuation(W, g) ==
  IF W.continuationPending \/ W.isLoading
    THEN [W EXCEPT !.inv[g].pc = "done"]
    ELSE IF shouldAutoSend(W)
           THEN LET W1 == streamResponse([W EXCEPT !.continuationPending = TRUE])
                IN [W1 EXCEPT !.inv[g].pc = "continuing",
                              !.inv[g].await = W1.streamGeneration]
           ELSE [W EXCEPT !.inv[g].pc = "done"]

\* The rest of the finally block: the awaited action, drainPostStreamActions
\* itself, or the streamResponse that checkForContinuation awaits, returned.
drainResume(W, g) ==
  CASE W.inv[g].pc = "draining" -> drain(W, g)
    [] W.inv[g].pc = "checking" -> \* the finally of a queued checkForContinuation
         drain([W EXCEPT !.continuationPending = FALSE], g)
    [] W.inv[g].pc = "drained" ->
         IF /\ W.inv[g].completed
            /\ LastPartIsToolResult(W.processor.messages)
            /\ shouldAutoSend(W)
           THEN checkForContinuation(W, g)
           ELSE [W EXCEPT !.inv[g].pc = "done"]
    [] OTHER -> \* "continuing": the finally of checkForContinuation
         [W EXCEPT !.continuationPending = FALSE,
                   !.inv[g].pc = "done", !.inv[g].await = 0]

\* checkForContinuation() awaited by a call of the user, up to its await
userCheckForContinuation(W) ==
  IF W.continuationPending \/ W.isLoading \/ ~shouldAutoSend(W)
    THEN W
    ELSE LET W1 == streamResponse([W EXCEPT !.continuationPending = TRUE])
         IN IF W1.streamGeneration \in Gens
              THEN [W1 EXCEPT !.inv[W1.streamGeneration].awaitedBy = "checkForContinuation"]
              ELSE W1

\* The streamResponse that the user's checkForContinuation awaits returned:
\* its finally block.
userContinuationResume(W, g) ==
  [W EXCEPT !.continuationPending = FALSE, !.inv[g].awaitedBy = ""]

\* ChatClient.addToolResult({toolCallId, output, errorText})
chatAddToolResult(W, toolCallId, output, errorText) ==
  LET W1 == applyProc(W, addToolResult(W.processor, toolCallId, output, errorText), 0)
  IN IF W1.isLoading
       THEN [W1 EXCEPT !.postStreamActions = Append(@, "checkForContinuation")]
       ELSE userCheckForContinuation(W1)

\* The execute function of a client tool returned (errorText "") or threw:
\* addToolResult with the output or with the error, then the execution
\* leaves the Map.
toolExecuted(W, toolCallId, errorText) ==
  [chatAddToolResult(W, toolCallId, IF errorText = "" THEN "out" ELSE "null", errorText)
     EXCEPT !.pendingToolExecutions[toolCallId].pc = "done",
            !.pendingToolExecutions[toolCallId].tracked = FALSE,
            !.pendingToolExecutions[toolCallId].errorText = errorText]

\* ChatClient.addToolApprovalResponse({id, approved})
respondToApproval(W, id, approved) ==
  LET W1 == applyProc([W EXCEPT !.calls.events = @ + 1],
                      addToolApprovalResponse(W.processor, id, approved), 0)
  IN IF W1.isLoading
       THEN [W1 EXCEPT !.postStreamActions = Append(@, "checkForContinuation")]
       ELSE userCheckForContinuation(W1)

\* What the user typed, as text
UserText == <<[src |-> 0, ch |-> "u"]>>

\* text.trim(): the text without its leading and trailing whitespace
trim(text) ==
  LET I == {i \in DOMAIN text : text[i].ch # " "}
  IN IF I = {} THEN <<>> ELSE SubSeq(text, MinOf(I), MaxOf(I))

\* sendMessage without the isLoading test: the guard of streamResponse is
\* the only one.
sendMessageUnguarded(W, content) ==
  IF trim(content) = <<>>
    THEN W
    ELSE streamResponse(applyProc(W, addUserMessage(W.processor, trim(content)), 0))

\* sendMessage(content) with a string
sendMessage(W, content) ==
  IF trim(content) = <<>> \/ W.isLoading
    THEN W
    ELSE streamResponse(applyProc(W, addUserMessage(W.processor, trim(content)), 0))

\* append(message) with a user message
append(W) ==
  LET W1 == applyProc([W EXCEPT !.calls.append = @ + 1],
                      appendMessage(W.processor, UserText), 0)
  IN IF W1.isLoading
       THEN [W1 EXCEPT !.postStreamActions = Append(@, "streamResponse")]
       ELSE streamResponse(W1)

\* The abort of the in-flight send and of the subscription loop, and the
\* release of the processing promise, that stop() and reload() share.
cancelStream(W) ==
  LET W1 == IF W.abortController # 0
              THEN [W EXCEPT !.abortedCtl = @ \cup {W.abortController},
                             !.abortController = 0]
              ELSE W
      W2 == [abortSub(W1, W1.subscriptionAbortController)
               EXCEPT !.subscriptionAbortController = 0]
      W3 == resolveProcessing(W2)
  IN setIsLoading(W3, FALSE)

\* stop()
stop(W) ==
  setStatus(cancelStream([W EXCEPT !.calls.stop = @ + 1,
                                   !.hist.stopped = @ \cup LiveGens(W)]), "ready")

\* reload()
reload(W) ==
  LET idx == LastUserIndex(W.processor.messages)
  IN IF idx = 0
       THEN W
       ELSE LET W0 == [W EXCEPT !.calls.reload = @ + 1]
                W1 == IF W.isLoading
                        THEN cancelStream([W0 EXCEPT !.hist.superseded = @ \cup LiveGens(W)])
                        ELSE W0
                W2 == applyProc(W1, removeMessagesAfter(W1.processor, idx), 0)
                W3 == streamResponse(W2)
            IN IF W.isLoading
                 THEN [W3 EXCEPT !.hist.reload = [gen |-> W3.streamGeneration,
                                                  base |-> W2.processor.messages,
                                                  appends |-> W.calls.append]]
                 ELSE W3

\* The body of the for-await in consumeSubscription for the chunk the
\* generator yielded, up to its setTimeout.
consumeChunk(W, k) ==
  IF W.subs[k].aborted
    THEN \* break: the generator is returned
         [W EXCEPT !.subs[k].pc = "done", !.subs[k].val = NoChunk]
    ELSE LET c == W.subs[k].val
             r == processChunk(W.processor, c)
             change == \E i \in DOMAIN r.evs : r.evs[i].ev = "onMessagesChange"
             W1 == [W EXCEPT !.received[k] = Append(@, c),
                             !.subs[k].pc = "idle",
                             !.subs[k].val = NoChunk,
                             !.hist.processed = Append(@, c),
                             !.hist.stale = IF c.src \in Cancelled(W)
                                              THEN @ \cup {[chunk |-> c, change |-> change]}
                                              ELSE @,
                             !.hist.finished = IF c.type = "RUN_FINISHED"
                                                 THEN @ \cup {c.src} ELSE @,
                             !.hist.errProcessed = IF c.type = "RUN_ERROR"
                                                     THEN @ \cup {c.src} ELSE @]
             W2 == applyProc(W1, r, c.src)
         IN IF IsTerminal(c) THEN resolveProcessing(W2) ELSE W2

\* A step stays within the bounds of the model.
Fits(W) ==
  /\ W.streamGeneration <= W.cap.gens
  /\ W.nsubs <= MaxSubs
  /\ W.calls.append <= W.cap.append
  /\ W.calls.stop <= W.cap.stop
  /\ W.calls.reload <= W.cap.reload
  /\ W.calls.events <= W.cap.events

Step(W) == Fits(W) /\ W # World /\ SetWorld(W)

SendMessage ==
  /\ ~isLoading
  /\ Step(sendMessage(World, UserText))

AppendMessage ==
  /\ calls.append < cap.append
  /\ Step(append(World))

Stop ==
  /\ calls.stop < cap.stop
  /\ Step(stop(World))

Reload ==
  /\ LastUserIndex(processor.messages) # 0
  /\ Step(reload(World))

AfterOnResponse(g) ==
  /\ inv[g].pc = "onResponse"
  /\ Step(afterOnResponse(World, g))

AfterSend(g) ==
  /\ inv[g].pc = "send"
  /\ sends[g].pc \in {"resolved", "rejected"}
  /\ Step(afterSend(World, g))

AfterProcessing(g) ==
  /\ inv[g].pc = "processing"
  /\ g \in procDone
  /\ Step(afterProcessing(World, g))

AfterTools(g) ==
  /\ inv[g].pc = "tools"
  /\ \A id \in inv[g].awaitTools : pendingToolExecutions[id].pc = "done"
  /\ Step(afterTools(World, g))

ToolExecuted(id) ==
  /\ id \in DOMAIN pendingToolExecutions
  /\ pendingToolExecutions[id].pc = "executing"
  /\ \E errorText \in {"", "failed"} : Step(toolExecuted(World, id, errorText))

DrainResume(g) ==
  /\ \/ inv[g].pc = "drained"
     \/ /\ inv[g].pc \in {"draining", "checking", "continuing"}
        /\ inv[g].await # 0 => inv[inv[g].await].pc = "done"
  /\ Step(drainResume(World, g))

ConsumeChunk(k) ==
  /\ subs[k].pc = "yielded"
  /\ Step(consumeChunk(World, k))

Next ==
  \/ SendMessage
  \/ Stop
  \/ Reload
  \/ \E g \in Gens : AfterOnResponse(g)
  \/ \E g \in Gens : AfterSend(g)
  \/ \E g \in Gens : AfterProcessing(g)
  \/ \E g \in Gens : DrainResume(g)
  \/ \E k \in Subs : SubNext(k)
  \/ \E k \in Subs : SubResume(k)
  \/ \E k \in Subs : ConsumeChunk(k)
  \/ \E s \in Gens : ConnYield(s, ConnChunks(s))
  \/ \E s \in Gens : ConnEnd(s)
  \/ \E s \in Gens : ConnThrow(s, {Err("Error", "boom")})

\* ------------------------------------------- a session used on its own
\* The caller of the session tests: subscribe(), abort and iteration in any
\* order, send() calls one after the other without a signal.
InitOf(c, P) ==
  /\ cap = c
  /\ bufs = [k \in 0..MaxSubs |-> <<>>]
  /\ activeBuffer = 0
  /\ activeWaiters = 0
  /\ subs = [k \in Subs |-> NoSub]
  /\ nsubs = 0
  /\ sends = [s \in Gens |-> NoSend]
  /\ abortedCtl = {}
  /\ isLoading = FALSE
  /\ status = "ready"
  /\ error = NoErr
  /\ abortController = 0
  /\ subscriptionAbortController = 0
  /\ processingResolve = 0
  /\ procDone = {}
  /\ streamGeneration = 0
  /\ postStreamActions = <<>>
  /\ continuationPending = FALSE
  /\ pendingToolExecutions = <<>>
  /\ inv = [g \in Gens |-> NoInv]
  /\ processor = P
  /\ calls = [append |-> 0, stop |-> 0, reload |-> 0, events |-> 0]
  /\ legacy = NewLegacy
  /\ pushed = <<>>
  /\ received = [k \in Subs |-> <<>>]
  /\ dropped = <<>>
  /\ adopted = [k \in Subs |-> [at |-> 0, buf |-> <<>>]]
  /\ hist = NoHist

InitWith(c) == InitOf(c, NewProcessor)

InitSession ==
  InitWith([gens |-> ClientGens, chunks |-> MaxChunks,
            append |-> 0, stop |-> 0, reload |-> 0, events |-> 0])

Init ==
  InitWith([gens |-> ClientGens, chunks |-> ClientChunks,
            append |-> 0, stop |-> ClientStops, reload |-> ClientGens, events |-> 0])

\* The user sends, appends while a stream is loading, and reloads; every
\* connection stream is a bare RUN_FINISHED.
InitDrain ==
  InitWith([gens |-> MaxGen, chunks |-> ClientChunks,
            append |-> MaxAppends, stop |-> 0, reload |-> DrainReloads, events |-> 0])

SessSubscribe ==
  /\ nsubs < MaxSubs
  /\ SetWorld(subscribe(World))

SessAbort(k) ==
  /\ subs[k].pc # "none"
  /\ ~subs[k].aborted
  /\ SetWorld(abortSub(World, k))

\* The consumer gets the yielded chunk.
SessCollect(k) ==
  /\ subs[k].pc = "yielded"
  /\ SetWorld([World EXCEPT !.received[k] = Append(@, subs[k].val),
                            !.subs[k].pc = "idle",
                            !.subs[k].val = NoChunk])

\* await session.send([], undefined): the next call starts when the previous settled.
SessSend(s) ==
  /\ sends[s].pc = "none"
  /\ s <= cap.gens
  /\ \A t \in Gens : t < s => sends[t].pc \in {"resolved", "rejected"}
  /\ SetWorld([World EXCEPT !.sends[s].pc = "running"])

NextSession ==
  \/ SessSubscribe
  \/ \E k \in Subs : SessAbort(k)
  \/ \E k \in Subs : SubNext(k)
  \/ \E k \in Subs : SubResume(k)
  \/ \E k \in Subs : SessCollect(k)
  \/ \E s \in Gens : SessSend(s)
  \/ \E s \in Gens : ConnYield(s, PlainChunks(s))
  \/ \E s \in Gens : ConnEnd(s)
  \/ \E s \in Gens : ConnThrow(s, PlainErrors)

SpecSession == InitSession /\ [][NextSession]_vars

\* The ChatClient with its default session, a connection and a user.
Spec == Init /\ [][Next]_vars

NextDrain ==
  \/ SendMessage
  \/ AppendMessage
  \/ Reload
  \/ \E g \in Gens : AfterOnResponse(g)
  \/ \E g \in Gens : AfterSend(g)
  \/ \E g \in Gens : AfterProcessing(g)
  \/ \E g \in Gens : DrainResume(g)
  \/ \E k \in Subs : SubNext(k)
  \/ \E k \in Subs : SubResume(k)
  \/ \E k \in Subs : ConsumeChunk(k)
  \/ \E s \in Gens : ConnYield(s, FinishChunks(s))
  \/ \E s \in Gens : ConnEnd(s)
  \/ \E s \in Gens : ConnThrow(s, {})

\* The ChatClient when post-stream actions are queued and drained.
SpecDrain == InitDrain /\ [][NextDrain]_vars

\* ---------------------------------------- a StreamProcessor used on its own
\* The AG-UI events of a stream, as the processor reads them.
TextStart(messageId, role) ==
  [Chunk("TEXT_MESSAGE_START", 0, 0, "", "") EXCEPT !.messageId = messageId, !.role = role]

TextContent(delta) == Chunk("TEXT_MESSAGE_CONTENT", 0, 0, delta, "")

\* TEXT_MESSAGE_CONTENT with delta and content
TextContentFull(delta, content) ==
  [TextContent(delta) EXCEPT !.hasContent = TRUE, !.content = content]

TextEnd(messageId) ==
  [Chunk("TEXT_MESSAGE_END", 0, 0, "", "") EXCEPT !.messageId = messageId]

\* TOOL_CALL_START: name is toolName
ToolStart(toolCallId) ==
  [Chunk("TOOL_CALL_START", 0, 0, "", "") EXCEPT !.toolCallId = toolCallId, !.name = "get"]

ToolArgs(toolCallId, delta) ==
  [Chunk("TOOL_CALL_ARGS", 0, 0, delta, "") EXCEPT !.toolCallId = toolCallId]

ToolEnd(toolCallId, result) ==
  [Chunk("TOOL_CALL_END", 0, 0, "", "") EXCEPT !.toolCallId = toolCallId, !.result = result]

\* CUSTOM 'approval-requested' with data {toolCallId, approval: {id}}
ApprovalRequested(toolCallId, approvalId) ==
  [Chunk("CUSTOM", 0, 0, "", "") EXCEPT !.name = "approval-requested",
                                        !.toolCallId = toolCallId,
                                        !.approvalId = approvalId]

\* CUSTOM 'tool-input-available' with data {toolCallId}
ToolInputAvailable(toolCallId) ==
  [Chunk("CUSTOM", 0, 0, "", "") EXCEPT !.name = "tool-input-available",
                                        !.toolCallId = toolCallId]

StepFinished(delta) == Chunk("STEP_FINISHED", 0, 0, delta, "")

RunFinished == Chunk("RUN_FINISHED", 0, 0, "", "")

RunError == Chunk("RUN_ERROR", 0, 0, "", "in-band")

ToolIds == {"t1", "t2"}

\* The approval id the engine gives the approval of a tool call.
ApprovalOf(toolCallId) == IF toolCallId = "t1" THEN "a1" ELSE "a2"

\* The message ids a server sends.
ServerIds == {101}

ToolEvents ==
  UNION {{ToolStart(t), ToolArgs(t, "a"), ToolEnd(t, ""), ToolEnd(t, "r"),
          ApprovalRequested(t, ApprovalOf(t))} : t \in ToolIds}

TextEvents ==
  {TextContent(d) : d \in Deltas}
    \cup UNION {{TextStart(m, "assistant"), TextStart(m, "user"), TextEnd(m)} : m \in ServerIds}

ProcEvents == ToolEvents \cup TextEvents \cup {StepFinished("x"), RunFinished, RunError}

\* The onToolCallStateChange reports among the callbacks evs, from position
\* i, added to the record h of the states reported per tool call.
RECURSIVE noteToolStates(_, _, _)
noteToolStates(h, evs, i) ==
  IF i > Len(evs)
    THEN h
    ELSE LET e == evs[i]
         IN IF e.ev # "onToolCallStateChange"
              THEN noteToolStates(h, evs, i + 1)
              ELSE LET key == <<e.messageId, e.toolCallId>>
                       old == IF key \in DOMAIN h THEN h[key] ELSE <<>>
                       new == IF old # <<>> /\ old[Len(old)] = e.state
                                THEN old ELSE Append(old, e.state)
                   IN noteToolStates((key :> new) @@ [k \in DOMAIN h \ {key} |-> h[k]],
                                     evs, i + 1)

\* A call of the processor's owner: the processor after it, the callbacks noted.
procCall(W, r) ==
  [W EXCEPT !.processor = r.p,
            !.calls.events = @ + 1,
            !.hist.toolStates = noteToolStates(@, r.evs, 1)]

\* processor.processChunk(c) for an event c of C
ProcessChunk(C) ==
  /\ calls.events < cap.events
  /\ \E c \in C : Step(procCall(World, processChunk(processor, c)))

\* processor.addToolResult(toolCallId, output, error?)
AddToolResult ==
  /\ calls.events < cap.events
  /\ \E t \in ToolIds : \E errorText \in {"", "failed"} :
       Step(procCall(World, addToolResult(processor, t, "out", errorText)))

\* processor.addToolApprovalResponse(approvalId, approved)
AddToolApprovalResponse ==
  /\ calls.events < cap.events
  /\ \E t \in ToolIds :
       Step(procCall(World, addToolApprovalResponse(processor, ApprovalOf(t), TRUE)))

\* processor.addUserMessage(content)
AddUserMessage ==
  /\ calls.events < cap.events
  /\ LET r == addUserMessage(processor, UserText)
     IN Step([procCall(World, r) EXCEPT
                !.hist.userAdded = Append(@, r.p.messages[Len(r.p.messages)])])

\* processor.prepareAssistantMessage(): the next stream begins
PrepareAssistantMessage ==
  /\ calls.events < cap.events
  /\ Step(procCall(World, [p |-> prepareAssistantMessage(processor), evs |-> <<>>]))

InitProcessor ==
  InitWith([gens |-> 0, chunks |-> 0, append |-> 0, stop |-> 0, reload |-> 0,
            events |-> MaxEvents])

NextProcessor ==
  \/ ProcessChunk(ProcEvents)
  \/ AddToolResult
  \/ AddToolApprovalResponse
  \/ AddUserMessage
  \/ PrepareAssistantMessage

\* A processor that is given any events and calls in any order.
SpecProcessor == InitProcessor /\ [][NextProcessor]_vars

\* The state of the ToolCallPart of call t in the conversation: "none" when
\* there is no such part.
PartsOf(t) ==
  UNION {{processor.messages[i].parts[j] :
            j \in {k \in DOMAIN processor.messages[i].parts :
                     IsToolCall(processor.messages[i].parts[k], t)}} :
         i \in DOMAIN processor.messages}

ToolState(t) ==
  IF PartsOf(t) = {} THEN "none" ELSE (CHOOSE part \in PartsOf(t) : TRUE).state

HasOutput(t) == \E part \in PartsOf(t) : part.output # "undefined"

ArgDeltas == {"a", "b"}

\* processChunk(c) for a tool-call event c of a well-formed stream
toolCall(W, c) ==
  [procCall(W, processChunk(W.processor, c)) EXCEPT !.hist.toolLog = Append(@, c)]

\* An adapter's TOOL_CALL_START, with an id the conversation has not seen
ToolCallStart(t) ==
  /\ calls.events < cap.events
  /\ ~processor.isDone
  /\ ToolState(t) = "none"
  /\ Step(toolCall(World, ToolStart(t)))

\* TOOL_CALL_ARGS of a call that started and has not ended
ToolCallArgs(t) ==
  /\ calls.events < cap.events
  /\ ~processor.isDone
  /\ ToolState(t) \in {"awaiting-input", "input-streaming"}
  /\ \E d \in ArgDeltas : Step(toolCall(World, ToolArgs(t, d)))

\* TOOL_CALL_END of a call that started and has not ended: without a result
\* (from the adapter) or with one (from the engine that ran the tool)
ToolCallEnd(t) ==
  /\ calls.events < cap.events
  /\ ~processor.isDone
  /\ ToolState(t) \in {"awaiting-input", "input-streaming"}
  /\ \E r \in {"", "r"} : Step(toolCall(World, ToolEnd(t, r)))

\* The engine asks for the approval of a call whose input is complete
ApprovalRequest(t) ==
  /\ calls.events < cap.events
  /\ ~processor.isDone
  /\ ToolState(t) = "input-complete"
  /\ ~HasOutput(t)
  /\ Step(procCall(World, processChunk(processor, ApprovalRequested(t, ApprovalOf(t)))))

\* Text of the assistant between the tool calls, and the end of the run
StreamText ==
  /\ calls.events < cap.events
  /\ ~processor.isDone
  /\ Step(procCall(World, processChunk(processor, TextContent("x"))))

StreamEnds ==
  /\ calls.events < cap.events
  /\ ~processor.isDone
  /\ Step(procCall(World, processChunk(processor, RunFinished)))

\* The user answers the approval request of call t
UserApproves(t) ==
  /\ calls.events < cap.events
  /\ ToolState(t) = "approval-requested"
  /\ Step(procCall(World, addToolApprovalResponse(processor, ApprovalOf(t), TRUE)))

\* The client tool of call t has run (after the approval, when one was asked
\* for) and returned or thrown
ClientToolDone(t) ==
  /\ calls.events < cap.events
  /\ ToolState(t) \in {"input-complete", "approval-responded"}
  /\ ~HasOutput(t)
  /\ \E errorText \in {"", "failed"} :
       Step(procCall(World, addToolResult(processor, t, "out", errorText)))

InitTools ==
  InitWith([gens |-> 0, chunks |-> 0, append |-> 0, stop |-> 0, reload |-> 0,
            events |-> MaxToolEvents])

NextTools ==
  \/ \E t \in ToolIds : ToolCallStart(t)
  \/ \E t \in ToolIds : ToolCallArgs(t)
  \/ \E t \in ToolIds : ToolCallEnd(t)
  \/ \E t \in ToolIds : ApprovalRequest(t)
  \/ StreamText
  \/ StreamEnds
  \/ \E t \in ToolIds : UserApproves(t)
  \/ \E t \in ToolIds : ClientToolDone(t)

\* A processor that is given one stream whose tool-call events keep the
\* adapter contract (START, then ARGS, then END per call; ids not reused),
\* with the approvals and client-tool results that follow them.
SpecTools == InitTools /\ [][NextTools]_vars

\* ------------------------------------ the ChatClient and server tools
\* The tool call the server makes in stream s.
CallIds == <<"c1", "c2", "c3", "c4">>

CallOf(s) == CallIds[IF s <= Len(CallIds) THEN s ELSE Len(CallIds)]

\* The next chunk of connection stream s: the server either answers with
\* text (TEXT_MESSAGE_CONTENT, RUN_FINISHED) or calls a tool and runs it
\* itself (TOOL_CALL_START, TOOL_CALL_END with the result, RUN_FINISHED).
RoundChunksOf(s) ==
  LET n == sends[s].n
      at(c) == [c EXCEPT !.src = s, !.n = n + 1]
      called == \E i \in DOMAIN pushed :
                  pushed[i].src = s /\ pushed[i].type = "TOOL_CALL_START"
  IN CASE n = 0 -> {at(ToolStart(CallOf(s))), at(TextContent("x"))}
       [] n = 1 /\ called -> {at(ToolEnd(CallOf(s), "r"))}
       [] OTHER -> {at(RunFinished)}

InitContinue ==
  InitWith([gens |-> MaxGen, chunks |-> RoundChunks,
            append |-> 0, stop |-> 0, reload |-> 0, events |-> 0])

NextContinue ==
  \/ SendMessage
  \/ \E g \in Gens : AfterOnResponse(g)
  \/ \E g \in Gens : AfterSend(g)
  \/ \E g \in Gens : AfterProcessing(g)
  \/ \E g \in Gens : DrainResume(g)
  \/ \E k \in Subs : SubNext(k)
  \/ \E k \in Subs : SubResume(k)
  \/ \E k \in Subs : ConsumeChunk(k)
  \/ \E s \in Gens : ConnYield(s, RoundChunksOf(s))
  \/ \E s \in Gens : ConnEnd(s)

\* The ChatClient when the server's streams end with the result of a tool
\* the server ran.
SpecContinue == InitContinue /\ [][NextContinue]_vars

\* The approval id no tool call was given.
UnknownApproval == "a9"

\* chatClient.addToolApprovalResponse for the approval the server asked for
\* or for an approval nobody asked for
ApprovalResponse ==
  /\ calls.events < cap.events
  /\ \E id \in {ApprovalOf("t1"), UnknownApproval} : \E approved \in BOOLEAN :
       Step(respondToApproval(World, id, approved))

UserContinuationResume(g) ==
  /\ inv[g].pc = "done"
  /\ inv[g].awaitedBy = "checkForContinuation"
  /\ Step(userContinuationResume(World, g))

\* The next chunk of connection stream s: the first stream calls a tool that
\* needs approval, the others answer with text.
ApprovalChunksOf(s) ==
  LET n == sends[s].n
      at(c) == [c EXCEPT !.src = s, !.n = n + 1]
  IN CASE s = 1 /\ n = 0 -> {at(ToolStart("t1"))}
       [] s = 1 /\ n = 1 -> {at(ApprovalRequested("t1", ApprovalOf("t1")))}
       [] s # 1 /\ n = 0 -> {at(TextContent("x"))}
       [] OTHER -> {at(RunFinished)}

MaxResponses == 2

InitApproval ==
  InitWith([gens |-> MaxGen, chunks |-> RoundChunks,
            append |-> 0, stop |-> 0, reload |-> 0, events |-> MaxResponses])

NextApproval ==
  \/ SendMessage
  \/ ApprovalResponse
  \/ \E g \in Gens : UserContinuationResume(g)
  \/ \E g \in Gens : AfterOnResponse(g)
  \/ \E g \in Gens : AfterSend(g)
  \/ \E g \in Gens : AfterProcessing(g)
  \/ \E g \in Gens : DrainResume(g)
  \/ \E k \in Subs : SubNext(k)
  \/ \E k \in Subs : SubResume(k)
  \/ \E k \in Subs : ConsumeChunk(k)
  \/ \E s \in Gens : ConnYield(s, ApprovalChunksOf(s))
  \/ \E s \in Gens : ConnEnd(s)

\* The ChatClient when the user answers requests for approval.
SpecApproval == InitApproval /\ [][NextApproval]_vars

\* The next chunk of connection stream s: the server either answers with
\* text or asks the client to run a tool (TOOL_CALL_START, TOOL_CALL_END,
\* CUSTOM tool-input-available), then RUN_FINISHED.
ClientToolChunksOf(s) ==
  LET n == sends[s].n
      at(c) == [c EXCEPT !.src = s, !.n = n + 1]
      called == \E i \in DOMAIN pushed :
                  pushed[i].src = s /\ pushed[i].type = "TOOL_CALL_START"
  IN CASE n = 0 -> {at(ToolStart(CallOf(s))), at(TextContent("x"))}
       [] n = 1 /\ called -> {at(ToolEnd(CallOf(s), ""))}
       [] n = 2 /\ called -> {at(ToolInputAvailable(CallOf(s)))}
       [] OTHER -> {at(RunFinished)}

ToolRoundChunks == 4

InitClientTools ==
  InitWith([gens |-> MaxGen, chunks |-> ToolRoundChunks,
            append |-> 0, stop |-> 0, reload |-> 0, events |-> 0])

NextClientTools ==
  \/ SendMessage
  \/ \E id \in ClientToolCalls : ToolExecuted(id)
  \/ \E g \in Gens : AfterOnResponse(g)
  \/ \E g \in Gens : AfterSend(g)
  \/ \E g \in Gens : AfterProcessing(g)
  \/ \E g \in Gens : AfterTools(g)
  \/ \E g \in Gens : DrainResume(g)
  \/ \E k \in Subs : SubNext(k)
  \/ \E k \in Subs : SubResume(k)
  \/ \E k \in Subs : ConsumeChunk(k)
  \/ \E s \in Gens : ConnYield(s, ClientToolChunksOf(s))
  \/ \E s \in Gens : ConnEnd(s)

\* The ChatClient when the server's streams ask for tools the client runs.
SpecClientTools == InitClientTools /\ [][NextClientTools]_vars

\* The next chunk of connection stream s when it may fail: as before, or
\* RUN_ERROR.
FailingChunksOf(s) ==
  ClientToolChunksOf(s) \cup {[RunError EXCEPT !.src = s, !.n = sends[s].n + 1]}

InitFailing ==
  InitWith([gens |-> ClientGens, chunks |-> ToolRoundChunks,
            append |-> 0, stop |-> 0, reload |-> 0, events |-> 0])

NextFailing ==
  \/ SendMessage
  \/ \E id \in ClientToolCalls : ToolExecuted(id)
  \/ \E g \in Gens : UserContinuationResume(g)
  \/ \E g \in Gens : AfterOnResponse(g)
  \/ \E g \in Gens : AfterSend(g)
  \/ \E g \in Gens : AfterProcessing(g)
  \/ \E g \in Gens : AfterTools(g)
  \/ \E g \in Gens : DrainResume(g)
  \/ \E k \in Subs : SubNext(k)
  \/ \E k \in Subs : SubResume(k)
  \/ \E k \in Subs : ConsumeChunk(k)
  \/ \E s \in Gens : ConnYield(s, FailingChunksOf(s))
  \/ \E s \in Gens : ConnEnd(s)
  \/ \E s \in Gens : ConnThrow(s, {Err("Error", "boom")})

\* The ChatClient when a stream may end with RUN_ERROR or its connection
\* may throw.
SpecFailing == InitFailing /\ [][NextFailing]_vars

\* The chunks from position i on passed to processChunk one after the other
RECURSIVE processAll(_, _, _)
processAll(P, chunks, i) ==
  IF i > Len(chunks)
    THEN P
    ELSE processAll(processChunk(P, chunks[i]).p, chunks, i + 1)

\* process(stream): the processor when it returns
process(P, chunks) == finalizeStream(processAll(resetStreamState(P), chunks, 1)).p

\* A replay runs after the run it replays.
ReplayTime == 1

\* StreamProcessor.replay(recording): the new processor when process() returns
replay(chunks) == process([NewProcessor EXCEPT !.now = ReplayTime], chunks)

\* The values of the Map messageStates in the order of their messages
MessageStatesOf(P) ==
  LET I == SelectSeq([i \in DOMAIN P.messages |-> P.messages[i].id],
                     LAMBDA id : HasState(P, id))
  IN [i \in DOMAIN I |-> P.messageStates[I[i]]]

RECURSIVE Concat(_, _)
Concat(texts, i) == IF i > Len(texts) THEN <<>> ELSE texts[i] \o Concat(texts, i + 1)

\* getCompletedToolCalls()
getCompletedToolCalls(P) ==
  [i \in DOMAIN MessageStatesOf(P) |->
     LET st == MessageStatesOf(P)[i]
     IN SelectSeq([j \in DOMAIN st.toolCallOrder |->
                     [id |-> st.toolCallOrder[j],
                      name |-> st.toolCalls[st.toolCallOrder[j]].name,
                      arguments |-> st.toolCalls[st.toolCallOrder[j]].arguments,
                      state |-> st.toolCalls[st.toolCallOrder[j]].state]],
                  LAMBDA tc : tc.state = "input-complete")]

\* getResult()
getResult(P) ==
  [content |-> Concat([i \in DOMAIN MessageStatesOf(P) |->
                         MessageStatesOf(P)[i].totalTextContent], 1),
   thinking |-> Concat([i \in DOMAIN MessageStatesOf(P) |->
                          MessageStatesOf(P)[i].thinkingContent], 1),
   toolCalls |-> Concat(getCompletedToolCalls(P), 1),
   finishReason |-> P.finishReason]

\* The chunks of the recorded streams
RecordedEvents ==
  {TextStart(101, "assistant"), TextContent("x"), TextEnd(101),
   ToolStart("t1"), ToolArgs("t1", "a"), ToolEnd("t1", "r"),
   StepFinished("x"), RunFinished, RunError}

MaxRecorded == 4

InitReplay ==
  InitWith([gens |-> 0, chunks |-> 0, append |-> 0, stop |-> 0, reload |-> 0,
            events |-> MaxRecorded])

\* process() passes the next chunk of its stream to processChunk and
\* records it.
ProcessRecorded ==
  /\ calls.events < cap.events
  /\ ~hist.recording.done
  /\ \E c \in RecordedEvents :
       Step([procCall(World, processChunk(processor, c))
               EXCEPT !.hist.recording.chunks = Append(@, c)])

\* The stream of process() ends: finalizeStream(), the result is returned.
ProcessReturns ==
  /\ ~hist.recording.done
  /\ Step([World EXCEPT !.processor = finalizeStream(processor).p,
                        !.hist.recording.done = TRUE])

NextReplay ==
  \/ ProcessRecorded
  \/ ProcessReturns

\* A new processor with recording on whose process() is given any stream.
SpecReplay == InitReplay /\ [][NextReplay]_vars

\* The owner begins the next stream as sendMessage does: the user's message
\* is added, then prepareAssistantMessage() resets the stream state.
StreamBegins ==
  /\ calls.events < cap.events
  /\ processor.isDone
  /\ LET u == addUserMessage(processor, UserText)
         r == [p |-> prepareAssistantMessage(u.p), evs |-> u.evs]
     IN Step([procCall(World, r) EXCEPT
                !.hist.preStream = r.p.messages,
                !.hist.userAdded = Append(@, u.p.messages[Len(u.p.messages)])])

\* The message ids the servers of successive streams send, and those of
\* them that no message from before the current stream has.
StreamIds == {101, 102}

FreshIds ==
  {m \in StreamIds : \A i \in DOMAIN hist.preStream : hist.preStream[i].id # m}

\* TEXT_MESSAGE_START of an assistant message of the stream
TextMessageStart ==
  /\ calls.events < cap.events
  /\ ~processor.isDone
  /\ \E m \in FreshIds :
       Step(procCall(World, processChunk(processor, TextStart(m, "assistant"))))

\* TEXT_MESSAGE_CONTENT with a delta of text or of whitespace
TextMessageContent ==
  /\ calls.events < cap.events
  /\ ~processor.isDone
  /\ \E d \in Deltas : Step(procCall(World, processChunk(processor, TextContent(d))))

\* TEXT_MESSAGE_END of an assistant message of the stream
TextMessageEnd ==
  /\ calls.events < cap.events
  /\ ~processor.isDone
  /\ \E m \in FreshIds : Step(procCall(World, processChunk(processor, TextEnd(m))))

\* RUN_ERROR
StreamFails ==
  /\ calls.events < cap.events
  /\ ~processor.isDone
  /\ Step(procCall(World, processChunk(processor, RunError)))

NextText ==
  \/ StreamBegins
  \/ TextMessageStart
  \/ TextMessageContent
  \/ TextMessageEnd
  \/ StreamFails
  \/ StreamEnds

\* A processor that is given streams of text one after the other, each
\* ended by RUN_FINISHED, with or without a RUN_ERROR before it.
SpecText == InitTools /\ [][NextText]_vars

NextParallel ==
  \/ \E t \in ToolIds : ToolCallStart(t)
  \/ \E t \in ToolIds : ToolCallArgs(t)
  \/ \E t \in ToolIds : ToolCallEnd(t)
  \/ StreamEnds

\* A processor that is given one stream of parallel tool calls: the events
\* of the calls interleaved in any way, each call's own events in order.
SpecParallel == InitTools /\ [][NextParallel]_vars

\* TEXT_MESSAGE_CONTENT before the tool call t1 of the stream starts or after
\* its result has come, with a delta alone or with the delta and, as
\* content, the text of the adapter's response so far (after a tool result
\* the adapter answers anew).
SegmentText ==
  /\ calls.events < cap.events
  /\ ~processor.isDone
  /\ ToolState("t1") = "none" \/ HasOutput("t1")
  /\ \E d \in Deltas : \E withContent \in BOOLEAN :
       LET late == HasOutput("t1")
           sent == Append(IF late THEN hist.after ELSE hist.before, Token(TextContent(d)))
           c == IF withContent THEN TextContentFull(d, sent) ELSE TextContent(d)
       IN Step([procCall(World, processChunk(processor, c))
                  EXCEPT !.hist.before = IF late THEN @ ELSE sent,
                         !.hist.after = IF late THEN sent ELSE @])

NextSegments ==
  \/ SegmentText
  \/ ToolCallStart("t1")
  \/ ToolCallArgs("t1")
  \/ ToolCallEnd("t1")
  \/ StreamEnds

\* A processor that is given one stream: text, one tool call, text.
SpecSegments == InitTools /\ [][NextSegments]_vars

\* The message state a message state of r continues: its own, or that of
\* the pending message a TEXT_MESSAGE_START renamed to it; 0 when it is new.
StateBefore(W, r, id) ==
  IF HasState(W.processor, id)
    THEN id
    ELSE IF /\ W.processor.pendingManualMessageId # 0
            /\ r.p.pendingManualMessageId = 0
            /\ HasState(W.processor, W.processor.pendingManualMessageId)
            /\ ~HasState(r.p, W.processor.pendingManualMessageId)
           THEN W.processor.pendingManualMessageId
           ELSE 0

SegmentBefore(W, k) ==
  IF k = 0 THEN <<>> ELSE W.processor.messageStates[k].currentSegmentText

SegmentsBefore(W, k) ==
  IF k \in DOMAIN W.hist.segments THEN W.hist.segments[k] ELSE <<>>

UpdateBefore(W, k) ==
  IF k \in DOMAIN W.hist.updates THEN W.hist.updates[k] ELSE <<>>

\* The segment of the message state was reset by the call: its text no
\* longer extends the text it had (every chunk carries text of its own).
SegmentReset(W, r, id) ==
  ~StartsWith(r.p.messageStates[id].currentSegmentText,
              SegmentBefore(W, StateBefore(W, r, id)))

UpdatesOf(r, id) ==
  SelectSeq(r.evs, LAMBDA e : e.ev = "onTextUpdate" /\ e.messageId = id)

noteSegments(W, r) ==
  [id \in DOMAIN r.p.messageStates |->
     IF SegmentReset(W, r, id)
       THEN SegmentsBefore(W, StateBefore(W, r, id))
              \o SegmentBefore(W, StateBefore(W, r, id))
       ELSE SegmentsBefore(W, StateBefore(W, r, id))]

noteUpdates(W, r) ==
  [id \in DOMAIN r.p.messageStates |->
     IF UpdatesOf(r, id) # <<>>
       THEN UpdatesOf(r, id)[Len(UpdatesOf(r, id))].text
       ELSE IF SegmentReset(W, r, id)
              THEN <<>>
              ELSE UpdateBefore(W, StateBefore(W, r, id))]

\* The values of the call that extend neither the value given before them
\* nor, the segment having been reset, are the text of the new segment.
noteNonPrefix(W, r) ==
  {[messageId |-> id, before |-> UpdateBefore(W, StateBefore(W, r, id)),
    text |-> UpdatesOf(r, id)[i].text] :
     <<id, i>> \in {x \in (DOMAIN r.p.messageStates) \X (DOMAIN r.evs) :
                     /\ x[2] \in DOMAIN UpdatesOf(r, x[1])
                     /\ ~StartsWith(UpdatesOf(r, x[1])[x[2]].text,
                                    UpdateBefore(W, StateBefore(W, r, x[1])))
                     /\ ~(/\ SegmentReset(W, r, x[1])
                          /\ UpdatesOf(r, x[1])[x[2]].text =
                               r.p.messageStates[x[1]].currentSegmentText)}}

textNoted(W, r) ==
  [procCall(W, r) EXCEPT !.hist.segments = noteSegments(W, r),
                         !.hist.updates = noteUpdates(W, r),
                         !.hist.nonPrefix = @ \cup noteNonPrefix(W, r)]

textCall(W, c) == textNoted(W, processChunk(W.processor, c))

\* The text of the chunk: one character that no chunk before it carried.
FreshText(ch) == <<[src |-> calls.events + 1, ch |-> ch]>>

ActiveSegment ==
  IF getActiveAssistantMessageId(processor) = 0
    THEN <<>>
    ELSE processor.messageStates[getActiveAssistantMessageId(processor)].currentSegmentText

\* TEXT_MESSAGE_CONTENT with a delta, alone, with the content of the
\* segment so far or with the content of a response that starts over
TextDelta ==
  /\ calls.events < cap.events
  /\ ~processor.isDone
  /\ \E content \in {<<>>, FreshText("x"), ActiveSegment \o FreshText("x")} :
       LET c == Chunk("TEXT_MESSAGE_CONTENT", calls.events + 1, 0, "x", "")
       IN Step(textCall(World, IF content = <<>>
                                 THEN c
                                 ELSE [c EXCEPT !.hasContent = TRUE,
                                                !.content = content]))

\* TEXT_MESSAGE_CONTENT with content and no delta
TextSnapshot ==
  /\ calls.events < cap.events
  /\ ~processor.isDone
  /\ \E content \in {FreshText(" "), ActiveSegment \o FreshText(" ")} :
       Step(textCall(World,
                     [Chunk("TEXT_MESSAGE_CONTENT", calls.events + 1, 0, "", "")
                        EXCEPT !.hasContent = TRUE, !.content = content]))

\* TEXT_MESSAGE_START of a message of the stream, new or known
TextSegmentStart ==
  /\ calls.events < cap.events
  /\ ~processor.isDone
  /\ \E m \in StreamIds : Step(textCall(World, TextStart(m, "assistant")))

\* TEXT_MESSAGE_END of a message of the stream
TextSegmentEnd ==
  /\ calls.events < cap.events
  /\ ~processor.isDone
  /\ \E m \in StreamIds : Step(textCall(World, TextEnd(m)))

\* TOOL_CALL_START and TOOL_CALL_END of a tool call between two texts
ToolCallBetween ==
  /\ calls.events < cap.events
  /\ ~processor.isDone
  /\ \/ ToolState("t1") = "none" /\ Step(textCall(World, ToolStart("t1")))
     \/ /\ ToolState("t1") \in {"awaiting-input", "input-streaming"}
        /\ Step(textCall(World, ToolEnd("t1", "r")))

\* RUN_FINISHED
TextStreamEnds ==
  /\ calls.events < cap.events
  /\ ~processor.isDone
  /\ Step(textCall(World, RunFinished))

NextUpdates ==
  \/ TextDelta
  \/ TextSnapshot
  \/ TextSegmentStart
  \/ TextSegmentEnd
  \/ ToolCallBetween
  \/ TextStreamEnds

\* A processor that is given one stream of text in several segments.
SpecUpdates == InitTools /\ [][NextUpdates]_vars

\* ------------------------------------------------ properties of the queue
\* The chunk a generator holds between the queue and its consumer.
InFlight(k) ==
  IF subs[k].pc \in {"resolved", "yielded"} /\ subs[k].val # NoChunk
    THEN <<subs[k].val>>
    ELSE <<>>

\* What subscription k has taken or can still take, in order.
Delivered(k) == received[k] \o InFlight(k) \o bufs[k]

PushedSince(k) == SubSeq(pushed, adopted[k].at + 1, Len(pushed))

Range(q) == {q[i] : i \in DOMAIN q}

\* C1: with one live subscription, the chunks the subscriber gets, followed by
\* the one in flight and those still buffered, are exactly the chunks pushed
\* by the send() calls, in push order: nothing is lost, duplicated or
\* reordered, whether a chunk was pushed before subscribe(), while the
\* consumer was busy, or while it waited.
C1_FifoDelivery ==
  /\ nsubs = 0 => bufs[0] = pushed
  /\ (nsubs = 1 /\ ~subs[1].aborted) => Delivered(1) = pushed

C1_Witness ==
  /\ nsubs = 1 /\ ~subs[1].aborted
  /\ adopted[1].buf # <<>>
  /\ sends[2].pc = "resolved"
  /\ received[1] = pushed
  /\ \E i \in DOMAIN pushed : pushed[i].src = 1
  /\ \E i \in DOMAIN pushed : pushed[i].src = 2

\* C2: once the earlier subscriptions are aborted and subscribe() is called
\* again, the new subscriber's chunks are the chunks buffered at that
\* subscribe() followed by every chunk pushed since, in order, and no earlier
\* subscription holds or has consumed any of them.
C2_ResubscribeKeepsChunks ==
  (nsubs >= 2 /\ ~subs[nsubs].aborted /\ \A j \in 1..(nsubs - 1) : subs[j].aborted)
    => /\ Delivered(nsubs) = adopted[nsubs].buf \o PushedSince(nsubs)
       /\ \A j \in 1..(nsubs - 1) :
            Range(Delivered(j)) \cap Range(adopted[nsubs].buf \o PushedSince(nsubs)) = {}

C2_Witness ==
  /\ nsubs = 2 /\ ~subs[2].aborted
  /\ subs[1].aborted /\ subs[1].waiter      \* aborted while blocked: its resolver is left behind
  /\ adopted[2].buf # <<>>
  /\ PushedSince(2) # <<>>
  /\ received[2] = adopted[2].buf \o PushedSince(2)

\* C10: a send() that rejected because its connection threw rejected with the
\* thrown value itself, and pushed a RUN_ERROR that carries the message of
\* the thrown Error.
SendErrorPushed(s) ==
  \E i \in DOMAIN pushed :
    /\ pushed[i].type = "RUN_ERROR"
    /\ pushed[i].src = s
    /\ pushed[i].n = 0
    /\ sends[s].thrown.isError => pushed[i].message = sends[s].thrown.message

C10_SendErrorPushedAndRethrown ==
  \A s \in Gens :
    sends[s].pc = "rejected" =>
      /\ sends[s].err = sends[s].thrown
      /\ SendErrorPushed(s)

C10_Witness ==
  \E s \in Gens : \E k \in Subs :
    /\ sends[s].pc = "rejected"
    /\ sends[s].err = Err("Error", "boom")
    /\ \E i \in DOMAIN received[k] :
         received[k][i].type = "RUN_ERROR" /\ received[k][i].message = "boom"

\* The RUN_FINISHED chunks in the queue's push history that came from send() s.
RunFinishedOf(s) ==
  {i \in DOMAIN pushed : pushed[i].type = "RUN_FINISHED" /\ pushed[i].src = s}

\* C11: a send() of the default session whose connection stream ended without
\* yielding RUN_FINISHED or RUN_ERROR has, by the time it resolves, pushed
\* exactly one RUN_FINISHED of its own to the subscription queue.
C11_EndSynthesizesRunFinished ==
  \A s \in Gens :
    (sends[s].pc = "resolved" /\ ~sends[s].term) =>
      Cardinality(RunFinishedOf(s)) = 1

\* ---------------------------------------------- properties of the client
\* session.send() of stream g was called with the signal of the controller
\* that streamResponse g created.
OwnSignal(g) == sends[g].signal = g

\* C3: after stop() of a stream whose send() is running (reload() is never
\* called), no chunk its connection yielded is passed to processChunk, and no
\* processChunk call made for that stream fires onMessagesChange.
C3_NoChunkOfStoppedStream ==
  \A r \in hist.stale :
    (r.chunk.src \in hist.stopped /\ OwnSignal(r.chunk.src) /\ calls.reload = 0)
      => (r.chunk.n = 0 /\ ~r.change)

\* C4: a stream stopped in flight, whose aborted send() rejects with the
\* AbortError, never sets the error state afterwards: neither its catch block
\* nor the RUN_ERROR the session pushed for it, whichever subscription
\* consumes it, calls setError / setStatus('error') / onError.
C4_StoppedStreamReportsNoError ==
  \A g \in hist.stopped :
    (OwnSignal(g) /\ sends[g].thrown = AbortErr /\ calls.reload = 0)
      => g \notin hist.errAfterCancel

\* The messages without their ids.
Shape(messages) ==
  [i \in DOMAIN messages |-> [role |-> messages[i].role, parts |-> messages[i].parts]]

RECURSIVE feed(_, _, _)
feed(P, chunks, i) ==
  IF i > Len(chunks) THEN P ELSE feed(processChunk(P, chunks[i]).p, chunks, i + 1)

\* What stream g alone produces on top of the messages reload() kept: the
\* chunks its send() pushed, processed in order after
\* prepareAssistantMessage(), then finalizeStream().
AloneMessages(g) ==
  LET P0 == prepareAssistantMessage([processor EXCEPT !.messages = hist.reload.base])
      P1 == feed(P0, SelectSeq(pushed, LAMBDA c : c.src = g), 1)
  IN finalizeStream(P1).p.messages

\* The stream reload() started has completed, every chunk it pushed was
\* processed, and nothing was started, appended or cancelled since. The
\* superseded send() was running when reload() was called, and no stream
\* reported an error.
ReloadSettled(g) ==
  /\ g # 0
  /\ calls.stop = 0
  /\ hist.errProcessed = {}
  /\ \A h \in Gens : sends[h].pc # "none" => OwnSignal(h)
  /\ g = streamGeneration
  /\ inv[g].pc = "done"
  /\ inv[g].completed
  /\ g \notin hist.stopped \cup hist.superseded
  /\ calls.append = hist.reload.appends
  /\ \A i \in DOMAIN pushed :
       pushed[i].src = g => \E j \in DOMAIN hist.processed : hist.processed[j] = pushed[i]

\* C5: after reload() of a live stream, once the second stream has settled
\* the messages are those the second stream alone produces on top of the
\* preserved prefix.
C5_ReloadEqualsSecondStreamAlone ==
  ReloadSettled(hist.reload.gen)
    => Shape(processor.messages) = Shape(AloneMessages(hist.reload.gen))

\* C6: a step of a streamResponse invocation whose generation is not the
\* current streamGeneration leaves isLoading, abortController, status, error
\* and the post-stream action queue alone and starts no stream.
C6_StaleInvocationWritesNothing ==
  [][\A g \in Gens :
       (inv[g].pc \notin {"none", "done"} /\ inv'[g] # inv[g] /\ g # streamGeneration)
         => UNCHANGED <<isLoading, abortController, status, error,
                        postStreamActions, streamGeneration>>]_vars

\* A queued action is taken off postStreamActions and called in this step.
ActionRun == Len(postStreamActions') < Len(postStreamActions)

\* C13: an action that append() queued while a stream was loading is taken
\* off the queue and called only when no stream is loading, so that the
\* streamResponse it requests starts: it is not called during a live stream
\* (where it would return at the isLoading guard), and no queued request is
\* used up without being served.
C13_QueuedActionRunsAfterStream ==
  [][(ActionRun /\ Head(postStreamActions) = "streamResponse")
       => streamGeneration' = streamGeneration + 1]_vars

\* session.send() of invocation g begins in this step.
SendBegins(g) == sends[g].pc = "none" /\ sends'[g].pc = "running"

\* C7: when the session.send() of the newest stream begins, every earlier
\* send() has settled, and each one that resolved has had its stream
\* finalized (by RUN_FINISHED or by streamResponse).
C7_SendsNeverOverlap ==
  [][\A g \in Gens :
       (SendBegins(g) /\ g = streamGeneration) =>
         \A h \in Gens \ {g} :
           sends[h].pc # "none" =>
             /\ sends[h].pc \in {"resolved", "rejected"}
             /\ sends[h].pc = "resolved" => h \in hist.finalized \cup hist.finished]_vars

\* Every streamResponse that started has settled, at least one has, no chunk
\* is left in the queue or on its way to the consumer, and the user never
\* called stop() or reload().
AllSettled ==
  /\ ~isLoading
  /\ \A k \in 0..MaxSubs : bufs[k] = <<>>
  /\ \A k \in Subs : subs[k].pc \in {"none", "waiting", "done"}
  /\ calls.stop = 0 /\ calls.reload = 0
  /\ \E g \in Gens : inv[g].pc = "done"
  /\ \A g \in Gens : inv[g].pc \in {"none", "done"}

\* C8: when no stream is in flight and every chunk was consumed, the status
\* is 'ready' or 'error'.
C8_SettledStatus == AllSettled => status \in {"ready", "error"}

\* C9: once the newest stream, whose RUN_ERROR was processed, has settled, the
\* status is 'error' and the error is set (the user called neither stop()
\* nor reload()).
C9_ErrorStatusSticks ==
  \A g \in Gens :
    (/\ g \in hist.errProcessed
     /\ g = streamGeneration
     /\ inv[g].pc = "done"
     /\ calls.stop = 0 /\ calls.reload = 0)
      => (status = "error" /\ error # NoErr)

\* ------------------------------------------- properties of the processor
\* The place of a tool-call state in awaiting-input < input-streaming <
\* input-complete < approval-requested < approval-responded.
StateRank(state) ==
  CASE state = "awaiting-input" -> 1
    [] state = "input-streaming" -> 2
    [] state = "input-complete" -> 3
    [] state = "approval-requested" -> 4
    [] state = "approval-responded" -> 5

\* The ToolCallPart at part j of message i keeps or advances its state in
\* this step.
PartAdvances(i, j) ==
  LET old == processor.messages[i].parts[j]
  IN (/\ old.type = "tool-call"
      /\ i \in DOMAIN processor'.messages
      /\ j \in DOMAIN processor'.messages[i].parts
      /\ IsToolCall(processor'.messages[i].parts[j], old.id))
       => StateRank(processor'.messages[i].parts[j].state) >= StateRank(old.state)

\* The states reported for a tool call never step back.
ReportsAdvance(h) ==
  \A t \in DOMAIN h : \A a, b \in DOMAIN h[t] :
    a < b => StateRank(h[t][a]) <= StateRank(h[t][b])

\* C14: whatever events and calls the processor is given, no step moves the
\* state of a ToolCallPart back in the order awaiting-input < input-streaming
\* < input-complete < approval-requested < approval-responded, and the states
\* onToolCallStateChange reports for a tool call never step back either.
C14_ToolCallStateNeverRegresses ==
  [][/\ \A i \in DOMAIN processor.messages :
          \A j \in DOMAIN processor.messages[i].parts : PartAdvances(i, j)
     /\ ReportsAdvance(hist'.toolStates)]_vars

\* The parts match (Text | Thinking | (ToolCall ToolResult?))* with no two
\* TextParts next to each other: a ToolResultPart comes right after the
\* ToolCallPart of its call.
PartsInOrder(parts) ==
  \A j \in DOMAIN parts :
    /\ parts[j].type = "tool-result" =>
         j > 1 /\ IsToolCall(parts[j - 1], parts[j].toolCallId)
    /\ (parts[j].type = "text" /\ j > 1) => parts[j - 1].type # "text"

\* C15: after any events of a well-formed stream, parallel tool calls
\* included, the parts of every assistant message are TextParts,
\* ThinkingParts and ToolCallParts, each ToolCallPart followed at once by its
\* ToolResultPart if it has one, and no two TextParts are adjacent.
C15_PartsInOrder ==
  \A i \in DOMAIN processor.messages :
    processor.messages[i].role = "assistant" => PartsInOrder(processor.messages[i].parts)

\* C16: when a stream sent text, then the tool call t1 with its result, then
\* more text, the assistant message has the parts TextPart(text before the
\* call), ToolCallPart, ToolResultPart, TextPart(text after the result only),
\* whether the later TEXT_MESSAGE_CONTENT events carried a delta alone or a
\* delta and content.
C16_TextToolTextParts ==
  (hist.before # <<>> /\ hist.after # <<>>) =>
    LET parts == processor.messages[1].parts
    IN /\ Len(parts) = 4
       /\ parts[1] = TextPart(hist.before)
       /\ IsToolCall(parts[2], "t1")
       /\ IsToolResult(parts[3], "t1")
       /\ parts[4] = TextPart(hist.after)

\* The ids of the TOOL_CALL_START events sent, in order, and the deltas of
\* the TOOL_CALL_ARGS events sent for call t, in order.
StartsSent ==
  LET starts == SelectSeq(hist.toolLog, LAMBDA c : c.type = "TOOL_CALL_START")
  IN [k \in DOMAIN starts |-> starts[k].toolCallId]

ArgsSent(t) ==
  LET args == SelectSeq(hist.toolLog,
                        LAMBDA c : c.type = "TOOL_CALL_ARGS" /\ c.toolCallId = t)
  IN [k \in DOMAIN args |-> args[k].delta]

\* The ToolCallParts among the parts, in order.
ToolCallsIn(parts) == SelectSeq(parts, LAMBDA part : part.type = "tool-call")

\* C17: however the START / ARGS / END events of distinct tool calls of one
\* message are interleaved, the message's ToolCallParts are the calls in
\* TOOL_CALL_START order, the arguments of each are its own ARGS deltas
\* joined in arrival order, and once RUN_FINISHED was processed every one is
\* input-complete.
C17_ParallelToolCalls ==
  hist.toolLog # <<>> =>
    LET tcs == ToolCallsIn(processor.messages[1].parts)
    IN /\ Len(processor.messages) = 1
       /\ [k \in DOMAIN tcs |-> tcs[k].id] = StartsSent
       /\ \A k \in DOMAIN tcs : tcs[k].arguments = ArgsSent(tcs[k].id)
       /\ processor.isDone => \A k \in DOMAIN tcs : tcs[k].state = "input-complete"

\* Two calls started, an ARGS of t2 came between two ARGS of t1, neither
\* call got its TOOL_CALL_END, and RUN_FINISHED was processed.
C17_Witness ==
  /\ processor.isDone
  /\ StartsSent = <<"t1", "t2">>
  /\ \E a, b, c \in DOMAIN hist.toolLog :
       /\ a < b /\ b < c
       /\ hist.toolLog[a] = ToolArgs("t1", "a")
       /\ hist.toolLog[b] = ToolArgs("t2", "b")
       /\ hist.toolLog[c] = ToolArgs("t1", "b")
  /\ \A k \in DOMAIN hist.toolLog : hist.toolLog[k].type # "TOOL_CALL_END"

\* The assistant messages of the conversation that are active in the
\* stream, and the last of them in the order they became active (0: none).
ActiveAssistants ==
  {k \in DOMAIN processor.activeMessageIds :
     \E i \in DOMAIN processor.messages :
       /\ processor.messages[i].id = processor.activeMessageIds[k]
       /\ processor.messages[i].role = "assistant"}

LastActiveAssistant ==
  IF ActiveAssistants = {} THEN 0
  ELSE processor.activeMessageIds[CHOOSE k \in ActiveAssistants :
                                    \A j \in ActiveAssistants : j <= k]

\* Message id has one part at least, and every part is text of whitespace.
WhitespaceOnly(id) ==
  \E i \in DOMAIN processor.messages :
    /\ processor.messages[i].id = id
    /\ processor.messages[i].parts # <<>>
    /\ \A k \in DOMAIN processor.messages[i].parts :
         /\ processor.messages[i].parts[k].type = "text"
         /\ \A c \in DOMAIN processor.messages[i].parts[k].content :
              processor.messages[i].parts[k].content[c].ch = " "

C19_UserMessagesOnlyFromAddUserMessage ==
  SelectSeq(processor.messages, LAMBDA m : m.role = "user") = hist.userAdded

\* The positions <<message, part>> of the ToolCallParts of the conversation.
ToolCallPositions ==
  UNION {{<<i, k>> : k \in {k \in DOMAIN processor.messages[i].parts :
                              processor.messages[i].parts[k].type = "tool-call"}} :
         i \in DOMAIN processor.messages}

\* C20: no two ToolCallParts of the conversation have the same id, and the
\* toolCallId of every ToolResultPart is the id of a ToolCallPart of the
\* same message.
C20_ToolCallIdsUnique ==
  /\ \A p, q \in ToolCallPositions :
       processor.messages[p[1]].parts[p[2]].id = processor.messages[q[1]].parts[q[2]].id
         => p = q
  /\ \A i \in DOMAIN processor.messages :
       \A k \in DOMAIN processor.messages[i].parts :
         processor.messages[i].parts[k].type = "tool-result" =>
           \E p \in ToolCallPositions :
             /\ p[1] = i
             /\ processor.messages[i].parts[p[2]].id =
                  processor.messages[i].parts[k].toolCallId

\* C12: a stream that was finalized successfully with a tool-result as the
\* last part and all tools complete is followed by a new streamResponse,
\* also when it was itself started by an auto-continuation: once every
\* invocation has returned, a later stream was started.
C12_ContinuationAfterEveryToolResult ==
  (\A g \in Gens : inv[g].pc \in {"none", "done"}) =>
    \A g \in hist.continuable : streamGeneration > g

\* C21: no two messages of the conversation have the same id, whatever
\* processChunk and addUserMessage calls were made.
C21_MessageIdsUnique ==
  \A i, j \in DOMAIN processor.messages :
    processor.messages[i].id = processor.messages[j].id => i = j

Tolerated(c) ==
  /\ processChunk(processor, c).p.messages = processor.messages
  /\ processChunk(processor, c).p.messageStates = processor.messageStates
  /\ processChunk(processor, c).evs = <<>>

\* TOOL_CALL_START of the tool call was processed and the call is known.
Started(t) ==
  /\ RoutedMessage(processor, t) # 0
  /\ HasToolCall(processor, RoutedMessage(processor, t), t)

\* C23: an event of an unknown type, TOOL_CALL_ARGS or TOOL_CALL_END of a
\* tool call that had no TOOL_CALL_START, and a second TOOL_CALL_START of a
\* started tool call change neither the messages nor the state of any
\* message and fire no callback, whenever they come.
C23_ToleratedEvents ==
  /\ Tolerated(Chunk("RUN_STARTED", 0, 0, "", ""))
  /\ \A t \in ToolIds :
       /\ RoutedMessage(processor, t) = 0
            => Tolerated(ToolArgs(t, "a")) /\ Tolerated(ToolEnd(t, "r"))
       /\ Started(t) => Tolerated(ToolStart(t))

\* C24: addToolApprovalResponse with an approval id that no ToolCallPart
\* has changes no message and starts no stream, whenever it is called.
C24_UnknownApprovalIsNoOp ==
  \A approved \in BOOLEAN :
    /\ respondToApproval(World, UnknownApproval, approved).processor.messages
         = processor.messages
    /\ respondToApproval(World, UnknownApproval, approved).streamGeneration
         = streamGeneration

\* ------------------------------------------- properties of the client tools
\* The executions of client tools that settled: returned, or threw.
Returned ==
  {id \in DOMAIN pendingToolExecutions :
     pendingToolExecutions[id].pc = "done" /\ pendingToolExecutions[id].errorText = ""}

Threw ==
  {id \in DOMAIN pendingToolExecutions :
     pendingToolExecutions[id].pc = "done" /\ pendingToolExecutions[id].errorText # ""}

\* Message i has the ToolCallPart of the call at j and, after it, a
\* ToolResultPart of the call in the given state at k.
Recorded(id, i, j, k, state) ==
  /\ IsToolCall(processor.messages[i].parts[j], id)
  /\ IsToolResult(processor.messages[i].parts[k], id)
  /\ j < k
  /\ processor.messages[i].parts[k].state = state

\* C25: when the execute function of the client tool that a CUSTOM
\* tool-input-available event named has returned, the ToolCallPart of the
\* call has the returned value as output and the same message has a
\* ToolResultPart of the call in state complete after it.
C25_ClientToolResultRecorded ==
  \A id \in Returned :
    \E i \in DOMAIN processor.messages :
      \E j, k \in DOMAIN processor.messages[i].parts :
        /\ Recorded(id, i, j, k, "complete")
        /\ processor.messages[i].parts[j].output = "out"

\* an execution that returned after its stream's RUN_FINISHED was processed
C25_Witness ==
  \E id \in Returned : pendingToolExecutions[id].src \in hist.finished

\* The ToolCallPart counts as complete for areAllToolsComplete().
CountsAsComplete(part, parts) ==
  \/ part.state = "approval-responded"
  \/ part.output # "undefined" /\ part.approval.id = ""
  \/ \E k \in DOMAIN parts : IsToolResult(parts[k], part.id)

\* Every streamResponse has returned and no execution is running.
Quiet ==
  /\ \A g \in Gens : inv[g].pc \in {"none", "done"}
  /\ \A id \in DOMAIN pendingToolExecutions : pendingToolExecutions[id].pc = "done"

\* The execute function of the client tool threw: the message of the call has
\* a ToolResultPart in state error with the error text, and the ToolCallPart
\* counts as complete.
ErrorRecorded ==
  \A id \in Threw :
    \E i \in DOMAIN processor.messages :
      \E j, k \in DOMAIN processor.messages[i].parts :
        /\ Recorded(id, i, j, k, "error")
        /\ processor.messages[i].parts[k].error = pendingToolExecutions[id].errorText
        /\ CountsAsComplete(processor.messages[i].parts[j], processor.messages[i].parts)

\* C26: when the execute function of a client tool throws, the failure is
\* recorded as a ToolResultPart in state error with the error text, the
\* tool call counts as complete, and once the stream that asked for the tool
\* was finalized a continuation stream is started.
C26_ThrownToolStillContinues ==
  /\ ErrorRecorded
  /\ Quiet =>
       \A id \in Threw :
         pendingToolExecutions[id].src \in hist.finalized
           => streamGeneration > pendingToolExecutions[id].src

\* C30: onStreamEnd (finalizeStream, and with it onFinish and the status
\* ready) never fires for a stream while a tool execution that one of its
\* onToolCall events started has not settled.
C30_FinalizationAwaitsTools == hist.endedEarly = {}

\* C27: once the signal of a subscription is aborted its iterator yields no
\* chunk any more, whether the abort came before the first next() or while
\* the consumer was waiting with nothing buffered.
C27_AbortedYieldsNothing ==
  [][\A k \in Subs :
       (subs[k].aborted /\ subs'[k].pc = "yielded") => subs[k].pc = "yielded"]_vars

\* ------------------------------------------------- properties of the replay
\* The messages without the time they were made at.
Undated(messages) ==
  [i \in DOMAIN messages |->
     [id |-> messages[i].id, role |-> messages[i].role, parts |-> messages[i].parts]]

\* The replay of the recording has the result of the recorded run.
ReplayResultEqual ==
  hist.recording.done =>
    /\ getResult(replay(hist.recording.chunks)) = getResult(processor)
    /\ Undated(replay(hist.recording.chunks).messages) = Undated(processor.messages)

\* C28: when process() has returned, a replay of its recording has the
\* messages and the ProcessorResult (content, thinking, toolCalls,
\* finishReason) of the recorded run.
C28_ReplayEqualsOriginal ==
  hist.recording.done =>
    /\ getResult(replay(hist.recording.chunks)) = getResult(processor)
    /\ replay(hist.recording.chunks).messages = processor.messages

\* finalizeStream() has left its mark on the processor: no message id is
\* active, no tool call waits for input, no text waits to be emitted.
StreamSettled ==
  /\ processor.activeMessageIds = <<>>
  /\ \A id \in DOMAIN processor.messageStates :
       LET st == processor.messageStates[id]
       IN /\ \A t \in DOMAIN st.toolCalls : st.toolCalls[t].state = "input-complete"
          /\ st.currentSegmentText = st.lastEmittedText

\* Stream g is over: its streamResponse has returned, its RUN_ERROR has been
\* processed, no tool execution is running and no later stream has begun.
ErrorHandled(g) ==
  /\ Quiet
  /\ g = streamGeneration
  /\ g \in hist.errProcessed

\* The stream's RUN_ERROR came from the server and no connect() has thrown:
\* session.send() resolved.
ErrorInBandSettled ==
  \A g \in Gens :
    (/\ ErrorHandled(g)
     /\ \A h \in Gens : sends[h].pc # "rejected") =>
      g \in hist.finalized /\ StreamSettled

\* A stream with a tool call ended with a RUN_ERROR from the server.
ErrorInBandHandled ==
  \E g \in Gens :
    /\ ErrorHandled(g)
    /\ \A h \in Gens : sends[h].pc # "rejected"
    /\ \E id \in DOMAIN processor.messageStates :
         processor.messageStates[id].toolCalls # <<>>

\* C29: once a stream that ended with an error (RUN_ERROR from the server,
\* or connect() throwing, upon which send() pushes a RUN_ERROR and rejects)
\* is over, finalizeStream() has been executed for it: no message id is
\* active, every tool call is input-complete, no text is left unflushed.
C29_ErrorFinalizes ==
  \A g \in Gens :
    ErrorHandled(g) /\ sends[g].pc \in {"resolved", "rejected"} =>
      g \in hist.finalized /\ StreamSettled

\* The states of the ToolCallParts of call t in the messages with id
\* messageId.
PartStatesIn(P, messageId, t) ==
  UNION {{P.messages[i].parts[j].state :
            j \in {k \in DOMAIN P.messages[i].parts :
                     IsToolCall(P.messages[i].parts[k], t)}} :
           i \in {m \in DOMAIN P.messages : P.messages[m].id = messageId}}

\* Every tool call of the stream's messages has its input complete, in the
\* stream state and in its ToolCallPart (which an approval may have taken on).
ToolCallsComplete(P) ==
  \A id \in DOMAIN P.messageStates :
    \A t \in DOMAIN P.messageStates[id].toolCalls :
      /\ P.messageStates[id].toolCalls[t].state = "input-complete"
      /\ PartStatesIn(P, id, t) # {}
      /\ PartStatesIn(P, id, t) \subseteq {"input-complete", "approval-requested",
                                           "approval-responded"}

ServerMessageStart ==
  /\ calls.events < cap.events
  /\ ~processor.isDone
  /\ \E m \in {x \in StreamIds : FindMessage(processor.messages, x) = 0} :
       Step(procCall(World, processChunk(processor, TextStart(m, "assistant"))))

NextRename ==
  \/ \E t \in ToolIds : ToolCallStart(t)
  \/ \E t \in ToolIds : ToolCallArgs(t)
  \/ \E t \in ToolIds : ToolCallEnd(t)
  \/ ServerMessageStart
  \/ StreamText
  \/ StreamEnds

\* A processor that is given one stream in which tool calls and text may
\* come before the TEXT_MESSAGE_START that brings the server's message id.
SpecRename == InitTools /\ [][NextRename]_vars

\* The tool call t the stream started is open in the state of message id.
OpenIn(P, id, t) ==
  /\ t \in DOMAIN P.messageStates[id].toolCalls
  /\ P.messageStates[id].toolCalls[t].state # "input-complete"

\* C32: in a stream in progress every toolCallToMessage entry names a message
\* that is in the conversation, has a stream state and is active, and a
\* TOOL_CALL_ARGS or TOOL_CALL_END for a call that is open is applied to it,
\* also when TEXT_MESSAGE_START renamed the message the call was started on.
C32_RenameKeepsRouting ==
  ~processor.isDone =>
    /\ \A t \in DOMAIN processor.toolCallToMessage :
         LET id == processor.toolCallToMessage[t]
         IN /\ FindMessage(processor.messages, id) # 0
            /\ HasState(processor, id)
            /\ \E i \in DOMAIN processor.activeMessageIds :
                 processor.activeMessageIds[i] = id
    /\ \A id \in DOMAIN processor.messageStates :
         \A t \in ToolIds :
           OpenIn(processor, id, t) =>
             /\ handleToolCallEndEvent(processor, ToolEnd(t, "")).p
                  .messageStates[id].toolCalls[t].state = "input-complete"
             /\ handleToolCallArgsEvent(processor, ToolArgs(t, "a")).p
                  .messageStates[id].toolCalls[t].arguments
                    = Append(processor.messageStates[id].toolCalls[t].arguments, "a")

\* ---------------------------------------------- the legacy StreamProcessor
\* handleTextChunk(content, delta) of the legacy processor: the textContent
\* after it (previous: the textContent before; deltaText: <<>> for a delta
\* that is undefined or empty; hasContent: content !== undefined).
handleTextChunkText(previous, hasContent, content, deltaText) ==
  IF deltaText # <<>>
    THEN previous \o deltaText
    ELSE IF hasContent /\ content # <<>>
           THEN IF StartsWith(content, previous)
                  THEN content
                  ELSE IF StartsWith(previous, content)
                         THEN previous
                         ELSE previous \o content
           ELSE previous

\* a is a prefix of b
IsPrefixOf(a, b) == Len(a) <= Len(b) /\ \A i \in DOMAIN a : a[i] = b[i]

\* The text the rule of the claim gives.
RuleText(currentText, hasContent, content, deltaText) ==
  CASE deltaText # <<>> -> currentText \o deltaText
    [] deltaText = <<>> /\ (~hasContent \/ content = <<>>) -> currentText
    [] deltaText = <<>> /\ hasContent /\ content # <<>>
         /\ IsPrefixOf(content, currentText) -> currentText
    [] deltaText = <<>> /\ hasContent /\ content # <<>>
         /\ ~IsPrefixOf(content, currentText)
         /\ IsPrefixOf(currentText, content) -> content
    [] OTHER -> currentText \o content

\* The TEXT_MESSAGE_CONTENT events tried in a state: without delta or with
\* one, without content or with content that is empty, the segment so far,
\* a part of it, an extension of it, or other text.
ContentsTried ==
  {<<>>, ActiveSegment, ActiveSegment \o FreshText("y"), FreshText("y"),
   FreshText("y") \o ActiveSegment}
    \cup (IF ActiveSegment = <<>> THEN {}
          ELSE {SubSeq(ActiveSegment, 1, Len(ActiveSegment) - 1)})

ChunksTried ==
  {Chunk("TEXT_MESSAGE_CONTENT", calls.events + 1, 0, d, "") : d \in {"", "x"}}
    \cup {[Chunk("TEXT_MESSAGE_CONTENT", calls.events + 1, 0, d, "")
             EXCEPT !.hasContent = TRUE, !.content = content] :
            d \in {"", "x"}, content \in ContentsTried}

DeltaText(c) == IF c.delta # "" THEN <<Token(c)>> ELSE <<>>

\* currentText of handleTextMessageContentEvent (const currentText =
\* state.currentSegmentText): the segment text of message id as the chunk
\* finds it, empty when the chunk opens a new segment.
CurrentText(P, id, chunk) ==
  LET st == P.messageStates[id]
  IN IF /\ st.hasToolCallsSinceTextStart
        /\ st.currentSegmentText # <<>>
        /\ isNewTextSegment(chunk, st.currentSegmentText)
       THEN <<>>
       ELSE st.currentSegmentText

\* C33: whatever the state, for a TEXT_MESSAGE_CONTENT the new segment text
\* is the current text with the delta appended when the delta is non-empty;
\* else the current text when the content is a prefix of it, the content
\* when the current text is a prefix of the content, the current text with
\* the content appended in every other case, and the current text unchanged
\* when there is neither; the legacy handleTextChunk computes the same.
C33_SegmentTextRule ==
  \A c \in ChunksTried :
    LET e == ensureAssistantMessage(processor, c.messageId)
        r == handleTextMessageContentEvent(processor, c)
        currentText == CurrentText(e.p, e.messageId, c)
    IN /\ r.p.messageStates[e.messageId].currentSegmentText
            = RuleText(currentText, c.hasContent, c.content, DeltaText(c))
       /\ handleTextChunkText(ActiveSegment, c.hasContent, c.content, DeltaText(c))
            = RuleText(ActiveSegment, c.hasContent, c.content, DeltaText(c))

\* A segment that began with a delta took on a content that extended it.
C33_Witness ==
  /\ Len(ActiveSegment) >= 2
  /\ ActiveSegment[1].ch = "x"
  /\ ActiveSegment[Len(ActiveSegment)].ch = " "
  /\ hist.updates # <<>>

\* The strings sendMessage is tried with: empty, whitespace, text, text in
\* whitespace.
StringsSent ==
  {<<>>, <<[src |-> 0, ch |-> " "]>>, UserText,
   <<[src |-> 0, ch |-> " "]>> \o UserText \o <<[src |-> 0, ch |-> " "]>>}

\* C34: sendMessage called while isLoading is true, or with a string that is
\* empty after trimming, adds no message, leaves isLoading, status and error
\* as they are, starts no streamResponse and calls no session.send.
C34_SendMessageIgnored ==
  \A content \in StringsSent :
    (isLoading \/ trim(content) = <<>>) =>
      LET W == sendMessage(World, content)
      IN /\ W.processor.messages = processor.messages
         /\ W.isLoading = isLoading
         /\ W.status = status
         /\ W.error = error
         /\ W.streamGeneration = streamGeneration
         /\ W.sends = sends
         /\ W.inv = inv

\* A response is streaming and chunks of it have come: sendMessage with text
\* is ignored.
C34_Witness ==
  /\ isLoading
  /\ status = "streaming"
  /\ \E g \in Gens : sends[g].pc = "running" /\ sends[g].n > 0
  /\ sendMessage(World, UserText) = World

\* C35: no chunk given to push() was handed to the waiter of a subscription
\* that had been aborted while it waited: every pushed chunk went to a
\* pending promise or into the active buffer.
C35_NoChunkDropped ==
  dropped = <<>>

\* The connection of streamResponse g has ended, every chunk it pushed was
\* consumed, no tool execution is running, and streamResponse g still waits
\* for processingComplete with isLoading true.
StuckAt(g) ==
  /\ isLoading
  /\ g = streamGeneration
  /\ inv[g].pc = "processing"
  /\ processingResolve = g
  /\ g \notin procDone
  /\ sends[g].pc = "resolved"
  /\ \A s \in Gens : sends[s].pc # "running"
  /\ \A k \in Subs : subs[k].pc \in {"none", "waiting", "done"}
  /\ bufs[activeBuffer] = <<>>
  /\ \A id \in DOMAIN pendingToolExecutions : pendingToolExecutions[id].pc = "done"

\* C36: no streamResponse is left waiting with isLoading true once its
\* connection's iterable has ended, all its chunks are consumed and every
\* tool execution has settled, whether or not the connection yielded
\* RUN_FINISHED or RUN_ERROR: that state never settles, as no step of the
\* client, the session or the connection is possible in it.
C36_StreamResponseSettles ==
  \A g \in Gens : ~(StuckAt(g) /\ ~ENABLED NextClientTools)

\* Stream s answered with text and called no tool, and its RUN_FINISHED was
\* processed.
ToolFree(s) ==
  /\ s \in hist.finished
  /\ \E i \in DOMAIN pushed : pushed[i].src = s /\ pushed[i].type = "TEXT_MESSAGE_CONTENT"
  /\ \A i \in DOMAIN pushed : pushed[i].src = s => pushed[i].type # "TOOL_CALL_START"

\* The calls of sendMessage that added a user message.
UserSends ==
  Cardinality({i \in DOMAIN processor.messages : processor.messages[i].role = "user"})

\* The client tools stream s asked for have run and their results were added.
ToolRound(s) ==
  /\ \E id \in DOMAIN pendingToolExecutions : pendingToolExecutions[id].src = s
  /\ \A id \in DOMAIN pendingToolExecutions :
       pendingToolExecutions[id].src = s => pendingToolExecutions[id].pc = "done"

\* C37: the user sent one message, the results of the client tools of the
\* first stream were added, and the continuation stream answered without a
\* tool call: when everything has returned, that continuation (stream 2) is
\* the only stream that was started after the first.
C37_OneContinuationPerRound ==
  (/\ Quiet
   /\ UserSends = 1
   /\ ToolRound(1)
   /\ streamGeneration >= 2
   /\ ToolFree(2)) => streamGeneration = 2

\* The round took place: one continuation, and all is quiet.
C37_Witness ==
  /\ Quiet
  /\ UserSends = 1
  /\ ToolRound(1)
  /\ ToolFree(2)
  /\ streamGeneration = 2
  /\ postStreamActions = <<>>

\* The chunks of a first stream that asks the client to run two tools, and
\* of the streams after it, which answer with text.
TwoToolStream ==
  <<ToolStart("c1"), ToolEnd("c1", ""), ToolStart("c2"), ToolEnd("c2", ""),
    ToolInputAvailable("c1"), ToolInputAvailable("c2"), RunFinished>>

TextStream == <<TextContent("x"), RunFinished>>

TwoToolChunks == 7

TwoToolChunksOf(s) ==
  LET stream == IF s = 1 THEN TwoToolStream ELSE TextStream
      n == sends[s].n
  IN IF n < Len(stream) THEN {[stream[n + 1] EXCEPT !.src = s, !.n = n + 1]} ELSE {}

InitTwoTools ==
  InitWith([gens |-> MaxGen, chunks |-> TwoToolChunks,
            append |-> 0, stop |-> 0, reload |-> 0, events |-> 0])

NextTwoTools ==
  \/ SendMessage
  \/ \E id \in ClientToolCalls : ToolExecuted(id)
  \/ \E g \in Gens : AfterOnResponse(g)
  \/ \E g \in Gens : AfterSend(g)
  \/ \E g \in Gens : AfterProcessing(g)
  \/ \E g \in Gens : AfterTools(g)
  \/ \E g \in Gens : DrainResume(g)
  \/ \E k \in Subs : SubNext(k)
  \/ \E k \in Subs : SubResume(k)
  \/ \E k \in Subs : ConsumeChunk(k)
  \/ \E s \in Gens : ConnYield(s, TwoToolChunksOf(s))
  \/ \E s \in Gens : ConnEnd(s)

\* The ChatClient when the first stream asks for two client tools and every
\* stream after it answers with text.
SpecTwoTools == InitTwoTools /\ [][NextTwoTools]_vars

\* Both results of the round were added while the first stream was loading:
\* two continuation checks were queued.
C37_TwoQueued ==
  /\ C37_Witness
  /\ Cardinality({id \in DOMAIN pendingToolExecutions :
                    pendingToolExecutions[id].src = 1}) = 2

\* finalizeStream() called twice with nothing in between: the second call
\* leaves the processor as the first left it and fires no callback.
FinalizeTwice(P) ==
  /\ finalizeStream(finalizeStream(P).p).p = finalizeStream(P).p
  /\ finalizeStream(finalizeStream(P).p).evs = <<>>

\* In every state a second finalizeStream(), after the one of the
\* RUN_FINISHED handler or after a call of its own, changes nothing and
\* fires nothing.
SecondFinalizeIsNoOp ==
  /\ FinalizeTwice(processor)
  /\ FinalizeTwice(handleRunFinishedEvent(processor, RunFinished).p)

\* streamResponse called finalizeStream() for a stream whose RUN_FINISHED
\* had fired onStreamEnd, and its tool execution was awaited in between.
FinalizedAfterRunFinished ==
  \E g \in Gens :
    /\ g \in hist.finished
    /\ g \in hist.finalized
    /\ g \in hist.ended
    /\ \E id \in DOMAIN pendingToolExecutions : pendingToolExecutions[id].src = g

\* C38: onStreamEnd (and with it the client's onFinish) has fired at most
\* once for each stream, although the RUN_FINISHED handler and
\* streamResponse both call finalizeStream().
C38_StreamEndsOnce == hist.endedTwice = {}


\* ------------------------------------------------ chunk strategies
\* TEXT_MESSAGE_CONTENT of the stream
StrategyText ==
  /\ calls.events < cap.events
  /\ ~processor.isDone
  /\ \E d \in Deltas : Step(toolCall(World, TextContent(d)))

\* RUN_FINISHED of the stream, which finalizes it
StrategyEnds ==
  /\ calls.events < cap.events
  /\ ~processor.isDone
  /\ Step(toolCall(World, RunFinished))

InitStrategy ==
  \E s \in Strategies :
    InitOf([gens |-> 0, chunks |-> 0, append |-> 0, stop |-> 0, reload |-> 0,
            events |-> MaxToolEvents],
           [NewProcessor EXCEPT !.chunkStrategy = s])

NextStrategy ==
  \/ StrategyText
  \/ \E t \in ToolIds : ToolCallStart(t)
  \/ \E t \in ToolIds : ToolCallArgs(t)
  \/ \E t \in ToolIds : ToolCallEnd(t)
  \/ StrategyEnds

\* A processor constructed with one of the chunk strategies that is given
\* one stream of text and tool calls, ended by RUN_FINISHED.
SpecStrategy == InitStrategy /\ [][NextStrategy]_vars

\* The messages a processor with the ImmediateStrategy has after the events
\* this one was given.
ImmediateMessages == process(NewProcessor, hist.toolLog).messages

\* The tool call t started after text was received, and no part of the
\* message before its ToolCallPart is a TextPart.
ToolBeforeItsText(t) ==
  /\ \E i \in DOMAIN hist.toolLog :
       /\ hist.toolLog[i] = ToolStart(t)
       /\ \E j \in 1..(i - 1) : hist.toolLog[j].type = "TEXT_MESSAGE_CONTENT"
  /\ \E m \in DOMAIN processor.messages :
       \E k \in DOMAIN processor.messages[m].parts :
         /\ IsToolCall(processor.messages[m].parts[k], t)
         /\ \A j \in 1..(k - 1) : processor.messages[m].parts[j].type # "text"

\* C39: with any chunk strategy the messages after finalizeStream are those
\* the ImmediateStrategy gives on the same events, and text received before
\* a TOOL_CALL_START is in a TextPart before that ToolCallPart.
C39_StrategyEqualsImmediate ==
  processor.isDone =>
    /\ processor.messages = ImmediateMessages
    /\ \A t \in ToolIds : ~ToolBeforeItsText(t)


\* ------------------------------- the StreamProcessor of stream/types.ts
MaxLegacyChunks == 5 \* chunks of the stream one process() call reads

\* A call of one of StreamProcessorHandlers
Handler(name, id, state) == [handler |-> name, id |-> id, state |-> state]

\* completeToolCall(index, toolCall)
legacyCompleteToolCall(L, id) ==
  [L EXCEPT !.toolCalls[id].state = "input-complete",
            !.handlers = @ \o <<Handler("onToolCallStateChange", id, "input-complete"),
                                Handler("onToolCallComplete", id, "input-complete")>>]

\* completeAllToolCalls(): every call that is not input-complete, in the
\* order of the Map
RECURSIVE legacyCompleteFrom(_, _)
legacyCompleteFrom(L, i) ==
  IF i > Len(L.toolCallOrder)
    THEN L
    ELSE legacyCompleteFrom(
           IF L.toolCalls[L.toolCallOrder[i]].state # "input-complete"
             THEN legacyCompleteToolCall(L, L.toolCallOrder[i])
             ELSE L,
           i + 1)

legacyCompleteAllToolCalls(L) == legacyCompleteFrom(L, 1)

\* emitTextUpdate()
legacyEmitTextUpdate(L) ==
  [L EXCEPT !.lastEmittedText = L.textContent,
            !.handlers = Append(@, Handler("onTextUpdate", "", ""))]

\* handleTextChunk(content, delta)
legacyHandleTextChunk(L, hasContent, content, deltaText) ==
  LET C == legacyCompleteAllToolCalls(L)
      T == [C EXCEPT !.textContent =
              handleTextChunkText(C.textContent, hasContent, content, deltaText)]
  IN IF T.textContent # T.lastEmittedText THEN legacyEmitTextUpdate(T) ELSE T

\* handleToolCallDelta(index, toolCall): arguments is "" or one piece of
\* the JSON text
legacyHandleToolCallDelta(L, id, arguments) ==
  IF id \notin DOMAIN L.toolCalls
    THEN LET initialState == IF arguments # "" THEN "input-streaming" ELSE "awaiting-input"
         IN [L EXCEPT !.toolCalls = @ @@ (id :> [state |-> initialState,
                                                  arguments |-> IF arguments # ""
                                                                  THEN <<arguments>> ELSE <<>>]),
                      !.toolCallOrder = Append(@, id),
                      !.handlers = @ \o <<Handler("onToolCallStart", id, ""),
                                          Handler("onToolCallStateChange", id, initialState)>>
                                     \o (IF arguments # ""
                                           THEN <<Handler("onToolCallDelta", id, "")>> ELSE <<>>)]
    ELSE LET state == IF L.toolCalls[id].state = "awaiting-input" /\ arguments # ""
                        THEN "input-streaming" ELSE L.toolCalls[id].state
         IN [L EXCEPT !.toolCalls[id].arguments = IF arguments # "" THEN Append(@, arguments) ELSE @,
                      !.toolCalls[id].state = state,
                      !.handlers = Append(@, Handler("onToolCallStateChange", id, state))
                                     \o (IF arguments # ""
                                           THEN <<Handler("onToolCallDelta", id, "")>> ELSE <<>>)]

\* finalizeStream() of stream/types.ts
legacyFinalizeStream(L) ==
  LET C == legacyCompleteAllToolCalls(L)
      T == IF C.textContent # C.lastEmittedText THEN legacyEmitTextUpdate(C) ELSE C
  IN [T EXCEPT !.handlers = Append(@, Handler("onStreamEnd", "", ""))]

\* reset()
legacyReset(L) ==
  [L EXCEPT !.textContent = <<>>, !.lastEmittedText = <<>>,
            !.toolCalls = <<>>, !.toolCallOrder = <<>>]

\* process(stream) is called: the state is reset and the stream is read
LegacyProcess ==
  /\ legacy.pc = "idle"
  /\ Step([World EXCEPT !.legacy = [legacyReset(legacy) EXCEPT !.pc = "reading"]])

\* The for-await loop of process() takes a chunk: L is the processor after
\* processChunk(chunk)
legacyRead(W, L) == [W EXCEPT !.legacy = [L EXCEPT !.chunks = W.legacy.chunks + 1]]

\* The stream yields a chunk of type "text" with a delta
LegacyText ==
  /\ legacy.pc = "reading"
  /\ legacy.chunks < MaxLegacyChunks
  /\ \E d \in Deltas :
       Step(legacyRead(World, legacyHandleTextChunk(legacy, FALSE, <<>>, <<d>>)))

\* The stream yields a chunk of type "tool-call-delta"
LegacyToolCallDelta(id) ==
  /\ legacy.pc = "reading"
  /\ legacy.chunks < MaxLegacyChunks
  /\ \E arguments \in {"", "a"} :
       Step(legacyRead(World, legacyHandleToolCallDelta(legacy, id, arguments)))

\* The stream yields a chunk of type "done"
LegacyDone ==
  /\ legacy.pc = "reading"
  /\ legacy.chunks < MaxLegacyChunks
  /\ Step(legacyRead(World, legacyCompleteAllToolCalls(legacy)))

\* The stream ends: process() finalizes and returns
LegacyStreamEnds ==
  /\ legacy.pc = "reading"
  /\ Step([World EXCEPT !.legacy = [legacyFinalizeStream(legacy) EXCEPT !.pc = "returned"]])

InitLegacy ==
  InitWith([gens |-> 0, chunks |-> 0, append |-> 0, stop |-> 0, reload |-> 0, events |-> 0])

NextLegacy ==
  \/ LegacyProcess
  \/ LegacyText
  \/ \E id \in ToolIds : LegacyToolCallDelta(id)
  \/ LegacyDone
  \/ LegacyStreamEnds

\* One process() call of the StreamProcessor of stream/types.ts on a stream
\* of text, tool-call deltas and "done" chunks.
SpecLegacy == InitLegacy /\ [][NextLegacy]_vars

\* How often onToolCallComplete was called for the tool call id
Completions(L, id) ==
  Cardinality({i \in DOMAIN L.handlers :
                 L.handlers[i].handler = "onToolCallComplete" /\ L.handlers[i].id = id})

\* The tool call id is input-complete and onToolCallComplete fired for it
LegacyCompleted(L, id) ==
  L.toolCalls[id].state = "input-complete" /\ Completions(L, id) = 1

\* A tool call started, and every tool call that had started before it with
\* another id is completed.
OthersCompletedAtStart ==
  \A i \in DOMAIN legacy.toolCallOrder : \A j \in 1..(i - 1) :
    LegacyCompleted(legacy, legacy.toolCallOrder[j])

\* After text content every started tool call is completed.
CompletedByText ==
  legacy.pc = "reading" =>
    \A d \in Deltas : \A id \in DOMAIN legacy.toolCalls :
      LegacyCompleted(legacyHandleTextChunk(legacy, FALSE, <<>>, <<d>>), id)

\* When process() has returned every started tool call is completed.
CompletedByStreamEnd ==
  legacy.pc = "returned" => \A id \in DOMAIN legacy.toolCalls : LegacyCompleted(legacy, id)

\* onToolCallComplete never fired twice for a tool-call id.
CompletedOnce == \A id \in ToolIds : Completions(legacy, id) <= 1

\* C40: in the StreamProcessor of stream/types.ts a started tool call is
\* completed (input-complete, onToolCallComplete fired) when a tool call
\* with another id starts, when text arrives and when the stream ends, and
\* onToolCallComplete fires exactly once for each tool-call id.
C40_LegacyToolCallsCompleted ==
  /\ OthersCompletedAtStart
  /\ CompletedByText
  /\ CompletedByStreamEnd
  /\ CompletedOnce

====
